---- MODULE Spec2Model ----
(***************************************************************************)
(* A model of the retrieval gateway of src/orchestration_api.py: the       *)
(* request handler, the access filter, the two retrieval adapters, the     *)
(* hybrid merge and the process-wide prompt cache; of the ACL normalizer,   *)
(* the classification and the sync run of src/sharepoint_sync.py; and of   *)
(* the PDF splitter of src/lambda_function.py.                             *)
(*                                                                         *)
(* Conventions.  A Python dict is a function over its keys, a Python list  *)
(* a sequence.  A Python function that can raise is an operator that       *)
(* yields a record with a field "raised"; one that touches the cache also  *)
(* yields the cache it leaves.  Scores are held in hundredths (0.85 is 85).*)
(* Clock values are minutes.                                               *)
(***************************************************************************)
EXTENDS Integers, Sequences, FiniteSets, TLC

VARIABLES
    prompt_cache,   \* orchestration_api.prompt_cache: key -> entry
    now,            \* the wall clock read by datetime.utcnow(), in minutes
    event,          \* body of the request lambda_handler served last
    response,       \* what lambda_handler returned for it
    calls,          \* calls to the services and log lines of that run, in order
    env,            \* what the retrieval services did in the run
    hcall,          \* arguments of the last direct call of retrieve_documents_hybrid
    hret,           \* its outcome (a result, or the exception it raised)
    kcall,          \* the two group lists of the cache-key scenario
    kret,           \* what the lookup of the second caller returned
    pc,             \* position of each concurrent cache client
    local,          \* locals of each concurrent cache client
    raw,            \* document attributes of the item the sync is normalizing
    policy,         \* the ACL normalizations of that item run so far
    pdf,            \* the uploaded PDF and what the splitter made of it
    acl,            \* an ACL policy and the classification computed for it
    sync            \* the sync run: its items, documents, uploads, calls, response

handlerVars == <<event, response, calls, env>>
hybridVars  == <<hcall, hret>>
keyVars     == <<kcall, kret>>
concVars    == <<pc, local>>
ingestVars  == <<raw, policy, pdf, acl, sync>>
vars == <<prompt_cache, now, event, response, calls, env, hcall, hret, kcall, kret, pc, local, acl, sync, raw, policy, pdf>>

(***************************************************************************)
(* Bounds and configuration                                                *)
(***************************************************************************)
MaxTime == 2              \* the clock advances at most this many minutes
CACHE_TTL_MINUTES == 2    \* CACHE_TTL_MINUTES, as set by the environment
DefaultMaxResults == 10   \* body.get('max_results', 10)

None == [none |-> TRUE]

\* no request yet, no answer yet
NoEvent == [idle |-> TRUE]
NoResponse == [statusCode |-> 0, body |-> [idle |-> TRUE]]

(***************************************************************************)
(* Time stamps: datetime.isoformat() writes a clock value as fields,       *)
(* datetime.fromisoformat() reads the fields back.                         *)
(***************************************************************************)
isoformat(t) == <<t \div 60, t % 60>>
fromisoformat(s) == s[1] * 60 + s[2]

(***************************************************************************)
(* Strings.  Python orders strings by code point; CodePoints gives the     *)
(* code points of the group names the model uses.                          *)
(***************************************************************************)
GroupNames == {"finance", "legal", "finance|legal"}

CodePoints(s) ==
    CASE s = "finance"       -> <<102, 105, 110, 97, 110, 99, 101>>
      [] s = "bedrock"       -> <<98, 101, 100, 114, 111, 99, 107>>
      [] s = "sharepoint"    -> <<115, 104, 97, 114, 101, 112, 111, 105, 110, 116>>
      [] s = "legal"         -> <<108, 101, 103, 97, 108>>
      [] s = "finance|legal" -> <<102, 105, 110, 97, 110, 99, 101, 124, 108, 101, 103, 97, 108>>
      [] s = ""              -> <<>>

\* a < b for Python strings
RECURSIVE SeqLess(_, _)
SeqLess(a, b) ==
    IF b = <<>> THEN FALSE
    ELSE IF a = <<>> THEN TRUE
    ELSE IF a[1] # b[1] THEN a[1] < b[1]
    ELSE SeqLess(Tail(a), Tail(b))

StrLess(a, b) == SeqLess(CodePoints(a), CodePoints(b))

\* sorted(xs): a stable insertion sort by StrLess
RECURSIVE InsertSorted(_, _)
InsertSorted(x, s) ==
    IF s = <<>> THEN <<x>>
    ELSE IF StrLess(x, s[1]) THEN <<x>> \o s
    ELSE <<s[1]>> \o InsertSorted(x, Tail(s))

RECURSIVE sorted(_)
sorted(xs) ==
    IF xs = <<>> THEN <<>>
    ELSE InsertSorted(xs[Len(xs)], sorted(SubSeq(xs, 1, Len(xs) - 1)))

\* sep.join(xs)
RECURSIVE join(_, _)
join(sep, xs) ==
    IF xs = <<>> THEN ""
    ELSE IF Len(xs) = 1 THEN xs[1]
    ELSE xs[1] \o sep \o join(sep, Tail(xs))

(***************************************************************************)
(* Callers and documents                                                   *)
(***************************************************************************)
UserIds == {"", "a@x.com"}
UserGroupLists == {<<>>, <<"finance">>, <<"legal", "finance">>}
Queries == {"", "Q1 revenue"}

\* The documents indexed in the knowledge base, as the retrieve API returns
\* them: content, score, location and the metadata written at ingestion.
\* Every value of the metadata is a string; a field of several principals
\* holds them joined by "|".
KB1 == [content |-> "handbook", score |-> 90, location |-> [uri |-> "s3://kb/1"],
        metadata |-> [classification |-> "public", title |-> "handbook"]]
KB2 == [content |-> "budget", score |-> 80, location |-> [uri |-> "s3://kb/2"],
        metadata |-> [classification |-> "confidential", access_groups |-> "finance",
                      internal_id |-> "kb-2"]]
KB3 == [content |-> "contract", score |-> 70, location |-> [uri |-> "s3://kb/3"],
        metadata |-> [classification |-> "confidential", access_groups |-> "legal"]]
\* a page the sync staged: allowed a@x.com and finance, denied a@x.com and legal
KB4 == [content |-> "payroll", score |-> 60, location |-> [uri |-> "s3://kb/4"],
        metadata |-> [classification |-> "restricted", access_groups |-> "finance",
                      access_users |-> "a@x.com", created_by |-> "b@x.com",
                      denied_users |-> "a@x.com", denied_groups |-> "legal"]]
\* a page the sync staged: allowed the groups finance and legal
KB5 == [content |-> "audit", score |-> 50, location |-> [uri |-> "s3://kb/5"],
        metadata |-> [classification |-> "restricted", access_groups |-> "finance|legal",
                      access_users |-> "", created_by |-> "system",
                      denied_users |-> "", denied_groups |-> ""]]
KnowledgeBase == {KB1, KB2, KB3, KB4, KB5}

\* What the index holds for a query: the documents relevant to it.
Relevant == {{}, {KB3}, {KB1, KB2, KB3}, KnowledgeBase}

(***************************************************************************)
(* build_access_control_filters                                            *)
(***************************************************************************)
Equals(k, v) == [equals |-> [key |-> k, value |-> v]]

\* the public condition added only "if no specific access controls"
build_access_control_filters_public_fallback(user_id, user_groups) ==
    LET user_conditions ==
            IF user_id # ""
            THEN <<Equals("access_users", user_id), Equals("created_by", user_id)>>
            ELSE <<>>
        group_conditions ==
            [i \in 1..Len(user_groups) |-> Equals("access_groups", user_groups[i])]
        or_conditions == user_conditions \o group_conditions
    IN  [orAll |-> IF or_conditions = <<>>
                   THEN <<Equals("classification", "public")>>
                   ELSE or_conditions]

\* the creator condition left out
build_access_control_filters_no_creator(user_id, user_groups) ==
    LET user_conditions ==
            IF user_id # "" THEN <<Equals("access_users", user_id)>> ELSE <<>>
        group_conditions ==
            [i \in 1..Len(user_groups) |-> Equals("access_groups", user_groups[i])]
    IN  [orAll |-> user_conditions \o group_conditions
                   \o <<Equals("classification", "public")>>]

build_access_control_filters(user_id, user_groups) ==
    LET user_conditions ==
            IF user_id # ""
            THEN <<Equals("access_users", user_id), Equals("created_by", user_id)>>
            ELSE <<>>
        group_conditions ==
            [i \in 1..Len(user_groups) |-> Equals("access_groups", user_groups[i])]
    IN  [orAll |-> user_conditions \o group_conditions
                   \o <<Equals("classification", "public")>>]

(***************************************************************************)
(* The knowledge base applying a filter: an equals condition holds of a    *)
(* document when the key is present and its value is the value asked for.  *)
(***************************************************************************)
Has(seq, x) == \E i \in 1..Len(seq) : seq[i] = x

\* an EqualsTo filter on sharepoint_groups
ListsGroup(attributes, group) ==
    "sharepoint_groups" \in DOMAIN attributes /\ Has(attributes.sharepoint_groups, group)

ConditionHolds(cond, metadata) ==
    LET k == cond.equals.key
        v == cond.equals.value
    IN  k \in DOMAIN metadata /\ metadata[k] = v

SatisfiesFilter(filter, metadata) ==
    \E i \in 1..Len(filter.orAll) : ConditionHolds(filter.orAll[i], metadata)

\* the documents of S by descending score (scores within one index differ)
RECURSIVE ByScore(_)
ByScore(S) ==
    IF S = {} THEN <<>>
    ELSE LET top == CHOOSE d \in S : \A e \in S : e.score <= d.score
         IN  <<top>> \o ByScore(S \ {top})

Prefix(s, n) == SubSeq(s, 1, IF Len(s) < n THEN Len(s) ELSE n)

\* bedrock_agent_client.retrieve with a filter and numberOfResults
VectorRetrieve(relevant, filter, numberOfResults) ==
    Prefix(ByScore({d \in relevant : SatisfiesFilter(filter, d.metadata)}),
           numberOfResults)

(***************************************************************************)
(* sanitize_metadata, sanitize_sharepoint_metadata                         *)
(***************************************************************************)
Without(metadata, fields) == [k \in DOMAIN metadata \ fields |-> metadata[k]]

sanitize_metadata(metadata) ==
    Without(metadata, {"access_users", "access_groups", "internal_id",
                       "processing_metadata"})

sanitize_sharepoint_metadata(metadata) ==
    Without(metadata, {"sharepoint_acl", "sharepoint_groups", "sharepoint_permissions",
                       "internal_sharepoint_id", "acl_users", "acl_groups"})

(***************************************************************************)
(* retrieve_documents: `backend` is what the retrieve call does: whether   *)
(* it raises and, when not, the documents relevant to the query.           *)
(***************************************************************************)
ProcessResult(result) ==
    [content |-> result.content, score |-> result.score, location |-> result.location,
     metadata |-> sanitize_metadata(result.metadata)]

retrieve_documents(query, metadata_filters, max_results, backend, t) ==
    IF backend.raises
    THEN [raised |-> TRUE, calls |-> <<"retrieve">>]
    ELSE LET found == VectorRetrieve(backend.relevant, metadata_filters, max_results)
             results == [i \in 1..Len(found) |-> ProcessResult(found[i])]
         IN  [raised |-> FALSE, calls |-> <<"retrieve">>,
              value |-> [type |-> "retrieve", query |-> query, results |-> results,
                         total_results |-> Len(results), timestamp |-> isoformat(t)]]

(***************************************************************************)
(* The prompt cache                                                        *)
(***************************************************************************)
RAG_PROMPT == "You are an expert AI assistant"            \* get_system_prompt_for_rag()

\* hashlib.sha256(content).hexdigest()[:16]: the digest of a content; two
\* contents have one digest exactly when they are the same string
sha256_hex16(content) == [sha256 |-> content]

\* the groups joined in the order given
generate_cache_key_unsorted(system_prompt, user_groups) ==
    sha256_hex16(system_prompt \o "|" \o join("|", user_groups))

generate_cache_key(system_prompt, user_groups) ==
    sha256_hex16(system_prompt \o "|" \o join("|", sorted(user_groups)))

EmptyCache == [k \in {} |-> None]

Remove(cache, key) == [k \in DOMAIN cache \ {key} |-> cache[k]]

\* {**prompt_data, 'timestamp': datetime.utcnow().isoformat()}
\* the entry bound in the map before its timestamp is set
NewCacheEntry_unstamped(prompt_data, t) == prompt_data

NewCacheEntry(prompt_data, t) ==
    [f \in DOMAIN prompt_data \cup {"timestamp"} |->
        IF f = "timestamp" THEN isoformat(t) ELSE prompt_data[f]]

\* the expiry test written with <= for <
get_cached_prompt_inclusive(cache, cache_key, t) ==
    IF cache_key \in DOMAIN cache
    THEN LET cached_data == cache[cache_key]
             cache_time == fromisoformat(cached_data.timestamp)
         IN  IF t - cache_time <= CACHE_TTL_MINUTES
             THEN [ret |-> cached_data, cache |-> cache, log |-> <<"Cache hit">>]
             ELSE [ret |-> None, cache |-> Remove(cache, cache_key),
                   log |-> <<"Cache expired", "Cache miss">>]
    ELSE [ret |-> None, cache |-> cache, log |-> <<"Cache miss">>]

\* the expired entry reported absent and left in the map
get_cached_prompt_no_eviction(cache, cache_key, t) ==
    IF cache_key \in DOMAIN cache
    THEN LET cached_data == cache[cache_key]
             cache_time == fromisoformat(cached_data.timestamp)
         IN  IF t - cache_time < CACHE_TTL_MINUTES
             THEN [ret |-> cached_data, cache |-> cache, log |-> <<"Cache hit">>]
             ELSE [ret |-> None, cache |-> cache,
                   log |-> <<"Cache expired", "Cache miss">>]
    ELSE [ret |-> None, cache |-> cache, log |-> <<"Cache miss">>]

get_cached_prompt(cache, cache_key, t) ==
    IF cache_key \in DOMAIN cache
    THEN LET cached_data == cache[cache_key]
             cache_time == fromisoformat(cached_data.timestamp)
         IN  IF t - cache_time < CACHE_TTL_MINUTES
             THEN [ret |-> cached_data, cache |-> cache, log |-> <<"Cache hit">>]
             ELSE [ret |-> None, cache |-> Remove(cache, cache_key),
                   log |-> <<"Cache expired", "Cache miss">>]
    ELSE [ret |-> None, cache |-> cache, log |-> <<"Cache miss">>]

store_cached_prompt(cache, cache_key, prompt_data, t) ==
    [k \in DOMAIN cache \cup {cache_key} |->
        IF k = cache_key THEN NewCacheEntry(prompt_data, t) ELSE cache[k]]

(***************************************************************************)
(* generate_with_claude_caching: `llm` is what invoke_model does, "error"  *)
(* when it raises, "fresh" when the model reports no cached prompt tokens  *)
(* read, "cached" when it reports some.                                    *)
(***************************************************************************)
LlmOutcomes == {"error", "fresh", "cached"}

\* the call repeated once when the model service raises
generate_with_claude_caching_retry(cache, system_prompt, cache_key, cached_prompt_data, user_groups, llm, t) ==
    IF llm = "error"
    THEN [raised |-> TRUE, cache |-> cache,
          calls |-> <<"invoke_model", "invoke_model",
                     "Error generating with Claude caching">>]
    ELSE LET cache_creation_input_tokens == IF llm = "fresh" THEN 1 ELSE 0
             cache_read_input_tokens == IF llm = "cached" THEN 1 ELSE 0
             was_cached == cache_read_input_tokens > 0
             cache_data == [system_prompt |-> system_prompt,
                            cache_creation_tokens |-> cache_creation_input_tokens,
                            user_groups |-> user_groups]
             store == cached_prompt_data = None
         IN  [raised |-> FALSE,
              cache |-> IF store THEN store_cached_prompt(cache, cache_key, cache_data, t)
                        ELSE cache,
              calls |-> <<"invoke_model">> \o (IF store THEN <<"Stored cache">> ELSE <<>>),
              value |-> [generated_response |-> "answer", cached |-> was_cached,
                         cache_performance |->
                            [cache_creation_tokens |-> cache_creation_input_tokens,
                             cache_read_tokens |-> cache_read_input_tokens]]]

\* the entry stored after every call, hit or miss
generate_with_claude_caching_always_store(cache, system_prompt, cache_key, cached_prompt_data, user_groups, llm, t) ==
    IF llm = "error"
    THEN [raised |-> TRUE, cache |-> cache,
          calls |-> <<"invoke_model", "Error generating with Claude caching">>]
    ELSE LET cache_creation_input_tokens == IF llm = "fresh" THEN 1 ELSE 0
             cache_read_input_tokens == IF llm = "cached" THEN 1 ELSE 0
             was_cached == cache_read_input_tokens > 0
             cache_data == [system_prompt |-> system_prompt,
                            cache_creation_tokens |-> cache_creation_input_tokens,
                            user_groups |-> user_groups]
             store == TRUE
         IN  [raised |-> FALSE,
              cache |-> IF store THEN store_cached_prompt(cache, cache_key, cache_data, t)
                        ELSE cache,
              calls |-> <<"invoke_model">> \o (IF store THEN <<"Stored cache">> ELSE <<>>),
              value |-> [generated_response |-> "answer", cached |-> was_cached,
                         cache_performance |->
                            [cache_creation_tokens |-> cache_creation_input_tokens,
                             cache_read_tokens |-> cache_read_input_tokens]]]

\* the entry stored before the model is called
generate_with_claude_caching_store_first(cache, system_prompt, cache_key, cached_prompt_data, user_groups, llm, t) ==
    IF llm = "error"
    THEN [raised |-> TRUE,
          cache |-> IF cached_prompt_data = None
                    THEN store_cached_prompt(cache, cache_key,
                             [system_prompt |-> system_prompt, cache_creation_tokens |-> 0,
                              user_groups |-> user_groups], t)
                    ELSE cache,
          calls |-> <<"invoke_model", "Error generating with Claude caching">>]
    ELSE LET cache_creation_input_tokens == IF llm = "fresh" THEN 1 ELSE 0
             cache_read_input_tokens == IF llm = "cached" THEN 1 ELSE 0
             was_cached == cache_read_input_tokens > 0
             cache_data == [system_prompt |-> system_prompt,
                            cache_creation_tokens |-> cache_creation_input_tokens,
                            user_groups |-> user_groups]
             store == cached_prompt_data = None
         IN  [raised |-> FALSE,
              cache |-> IF store THEN store_cached_prompt(cache, cache_key, cache_data, t)
                        ELSE cache,
              calls |-> <<"invoke_model">> \o (IF store THEN <<"Stored cache">> ELSE <<>>),
              value |-> [generated_response |-> "answer", cached |-> was_cached,
                         cache_performance |->
                            [cache_creation_tokens |-> cache_creation_input_tokens,
                             cache_read_tokens |-> cache_read_input_tokens]]]

generate_with_claude_caching(cache, system_prompt, cache_key, cached_prompt_data, user_groups, llm, t) ==
    IF llm = "error"
    THEN [raised |-> TRUE, cache |-> cache,
          calls |-> <<"invoke_model", "Error generating with Claude caching">>]
    ELSE LET cache_creation_input_tokens == IF llm = "fresh" THEN 1 ELSE 0
             cache_read_input_tokens == IF llm = "cached" THEN 1 ELSE 0
             was_cached == cache_read_input_tokens > 0
             cache_data == [system_prompt |-> system_prompt,
                            cache_creation_tokens |-> cache_creation_input_tokens,
                            user_groups |-> user_groups]
             store == cached_prompt_data = None
         IN  [raised |-> FALSE,
              cache |-> IF store THEN store_cached_prompt(cache, cache_key, cache_data, t)
                        ELSE cache,
              calls |-> <<"invoke_model">> \o (IF store THEN <<"Stored cache">> ELSE <<>>),
              value |-> [generated_response |-> "answer", cached |-> was_cached,
                         cache_performance |->
                            [cache_creation_tokens |-> cache_creation_input_tokens,
                             cache_read_tokens |-> cache_read_input_tokens]]]

(***************************************************************************)
(* create_citations_from_documents                                         *)
(***************************************************************************)
\* one citation holding every reference
create_citations_single(documents, generated_response) ==
    IF documents = <<>> THEN <<>>
    ELSE <<[generatedResponsePart |-> [text |-> generated_response],
            retrievedReferences |->
               [i \in 1..Len(documents) |->
                   [content |-> documents[i].content, location |-> documents[i].location,
                    metadata |-> sanitize_metadata(documents[i].metadata)]]]>>

create_citations_from_documents(documents, generated_response) ==
    [i \in 1..Len(documents) |->
        [generatedResponsePart |-> [text |-> generated_response],
         retrievedReferences |->
            <<[content |-> documents[i].content, location |-> documents[i].location,
               metadata |-> sanitize_metadata(documents[i].metadata)]>>]]

NO_RESULTS_MESSAGE ==
    "I couldn't find any relevant documents to answer your question. Please try rephrasing your query or check if you have access to the relevant documents."

(***************************************************************************)
(* retrieve_and_generate_with_caching.  The run reads the clock more than  *)
(* once, and waits for the retrieval and for the model in between: `clock` *)
(* holds the reading of the cache lookup (also the one retrieve_documents  *)
(* stamps its result with, which this caller drops), the reading of the    *)
(* store and the reading that stamps the answer.                           *)
(***************************************************************************)
\* `not documents`: the test of the dict instead of its results
NoResultsOfDict(documents) == DOMAIN documents = {}

\* `not documents.get('results')`
NoResults(documents) == documents.results = <<>>

retrieve_and_generate_with_caching(cache, query, metadata_filters, max_results, user_id, user_groups, backend, llm, clock) ==
    LET documents == retrieve_documents(query, metadata_filters, max_results, backend,
                                        clock.lookup)
    IN  IF documents.raised
        THEN [raised |-> TRUE, cache |-> cache, calls |-> documents.calls]
        ELSE IF NoResults(documents.value)
        THEN [raised |-> FALSE, cache |-> cache, calls |-> documents.calls,
              value |-> [type |-> "retrieve_and_generate_cached", query |-> query,
                         generated_response |-> NO_RESULTS_MESSAGE, citations |-> <<>>,
                         cached |-> FALSE, timestamp |-> isoformat(clock.answered)]]
        ELSE LET system_prompt == RAG_PROMPT
                 cache_key == generate_cache_key(system_prompt, user_groups)
                 got == get_cached_prompt(cache, cache_key, clock.lookup)
                 gen == generate_with_claude_caching(got.cache, system_prompt, cache_key,
                                                     got.ret, user_groups, llm,
                                                     clock.stored)
                 trace == documents.calls \o got.log \o gen.calls
             IN  IF gen.raised
                 THEN [raised |-> TRUE, cache |-> gen.cache, calls |-> trace]
                 ELSE [raised |-> FALSE, cache |-> gen.cache, calls |-> trace,
                       value |-> [type |-> "retrieve_and_generate_cached", query |-> query,
                                  generated_response |-> gen.value.generated_response,
                                  citations |-> create_citations_from_documents(
                                      documents.value.results,
                                      gen.value.generated_response),
                                  cached |-> gen.value.cached,
                                  cache_performance |-> gen.value.cache_performance,
                                  timestamp |-> isoformat(clock.answered)]]

(***************************************************************************)
(* retrieve_and_generate: one call of the knowledge base's own             *)
(* retrieve-and-generate API, which retrieves under the filter and has the *)
(* model write the answer, whatever it retrieved.                          *)
(***************************************************************************)
retrieve_and_generate(query, metadata_filters, max_results, backend, t) ==
    IF backend.raises
    THEN [raised |-> TRUE, calls |-> <<"retrieve_and_generate">>]
    ELSE LET found == VectorRetrieve(backend.relevant, metadata_filters, max_results)
             citations ==
                IF found = <<>> THEN <<>>
                ELSE <<[generatedResponsePart |-> [text |-> "answer"],
                        retrievedReferences |->
                           [i \in 1..Len(found) |->
                               [content |-> found[i].content,
                                location |-> found[i].location,
                                metadata |-> sanitize_metadata(found[i].metadata)]]]>>
         IN  [raised |-> FALSE, calls |-> <<"retrieve_and_generate">>,
              value |-> [type |-> "retrieve_and_generate", query |-> query,
                         generated_response |-> "answer", citations |-> citations,
                         timestamp |-> isoformat(t)]]

(***************************************************************************)
(* lambda_handler                                                          *)
(***************************************************************************)
create_success_response(data) == [statusCode |-> 200, body |-> data]

create_error_response(status_code, message, t) ==
    [statusCode |-> status_code, body |-> [error |-> message, timestamp |-> isoformat(t)]]

\* a request whose body is not JSON
MalformedEvent == [malformed |-> TRUE]

\* "Validate required parameters": the message of the 400 response, "" when
\* the request passes
ValidateQueryOnly(query, user_id, user_groups) ==
    IF query = "" THEN "Query parameter is required" ELSE ""

Validate(query, user_id, user_groups) ==
    IF query = "" THEN "Query parameter is required"
    ELSE IF user_id = "" /\ user_groups = <<>>
    THEN "Either user_id or user_groups must be provided"
    ELSE ""

\* `clock` holds the readings of datetime.utcnow() of the run; a run that
\* reads the clock once, for the timestamp of its answer, reads clock.answered
lambda_handler(ev, cache, backend, llm, clock) ==
    IF "malformed" \in DOMAIN ev
    THEN [response |-> create_error_response(500, "Internal server error", clock.answered),
          cache |-> cache, calls |-> <<>>]
    ELSE IF Validate(ev.query, ev.user_id, ev.user_groups) # ""
    THEN [response |-> create_error_response(400,
                          Validate(ev.query, ev.user_id, ev.user_groups), clock.answered),
          cache |-> cache, calls |-> <<>>]
    ELSE LET metadata_filters == build_access_control_filters(ev.user_id, ev.user_groups)
             out ==
                IF ev.type = "retrieve_and_generate"
                THEN IF ev.use_caching
                     THEN retrieve_and_generate_with_caching(cache, ev.query,
                              metadata_filters, ev.max_results, ev.user_id,
                              ev.user_groups, backend, llm, clock)
                     ELSE retrieve_and_generate(ev.query, metadata_filters,
                              ev.max_results, backend, clock.answered) @@ [cache |-> cache]
                ELSE retrieve_documents(ev.query, metadata_filters, ev.max_results,
                                        backend, clock.answered) @@ [cache |-> cache]
         IN  IF out.raised
             THEN [response |-> create_error_response(500, "Internal server error",
                                                      clock.answered),
                   cache |-> out.cache, calls |-> out.calls]
             ELSE [response |-> create_success_response(out.value),
                   cache |-> out.cache, calls |-> out.calls]

\* use_caching is read for type retrieve_and_generate alone
Events ==
    [query : Queries, user_id : UserIds, user_groups : UserGroupLists,
     max_results : {DefaultMaxResults}, type : {"retrieve_and_generate"},
     use_caching : BOOLEAN]
    \cup [query : Queries, user_id : UserIds, user_groups : UserGroupLists,
          max_results : {DefaultMaxResults}, type : {"retrieve"}, use_caching : {TRUE}]
    \cup {MalformedEvent}

\* what the retrieval service does with the query: it raises, or it answers
\* from the documents relevant to the query
BackendOutcomes == [raises : {TRUE}, relevant : {{}}] \cup [raises : {FALSE}, relevant : Relevant]

(***************************************************************************)
(* The initial state and the clock                                         *)
(***************************************************************************)
NumClients == 2      \* requests that may overlap

Clients == 1..NumClients
Idle == [op |-> "none"]

LastTime == 59 + MaxTime

\* the readings of the clock one run may make from time t on, in order
Clocks(t) ==
    {clock \in [lookup : t..LastTime, stored : t..LastTime, answered : t..LastTime] :
        clock.lookup <= clock.stored /\ clock.stored <= clock.answered}

Tick ==
    /\ now < LastTime
    /\ now' = now + 1
    /\ UNCHANGED <<prompt_cache, event, response, calls, env, hcall, hret, kcall, kret, pc, local, acl, sync, raw, policy, pdf>>

Init ==
    /\ prompt_cache = EmptyCache
    /\ now = 59
    /\ event = NoEvent
    /\ response = NoResponse
    /\ calls = <<>>
    /\ env = NoEvent
    /\ hcall = NoEvent
    /\ hret = NoEvent
    /\ kcall = NoEvent
    /\ kret = NoEvent
    /\ pc = [c \in Clients |-> "idle"]
    /\ local = [c \in Clients |-> Idle]
    /\ raw = NoEvent
    /\ policy = <<>>
    /\ pdf = NoEvent
    /\ acl = NoEvent
    /\ sync = NoEvent

(***************************************************************************)
(* The handler serving one request after another, and the clock            *)
(***************************************************************************)
\* a request arrives (one at a time: the handler runs to completion)
Receive ==
    /\ event = NoEvent \/ response # NoResponse
    /\ event' \in Events
    /\ response' = NoResponse
    /\ calls' = <<>>
    /\ env' = NoEvent
    /\ UNCHANGED <<prompt_cache, now, hcall, hret, kcall, kret, pc, local, acl, sync, raw, policy, pdf>>

\* get_cached_prompt reads the clock when it finds the key in the map, and
\* store_cached_prompt when it is called; a reading the run does not make is
\* written in `clock` as the reading that follows it
ReadingsMade(clock, log) ==
    /\ (~Has(log, "Cache hit") /\ ~Has(log, "Cache expired")) => clock.lookup = clock.stored
    /\ ~Has(log, "Stored cache") => clock.stored = clock.answered

\* only a request served with prompt caching reads the clock before it stamps
\* its answer
RunClocks(ev, t) ==
    IF "malformed" \notin DOMAIN ev /\ ev.type = "retrieve_and_generate" /\ ev.use_caching
    THEN Clocks(t)
    ELSE {clock \in Clocks(t) : clock.lookup = clock.answered}

\* lambda_handler serves it; the clock may advance while the run waits for
\* the services, and stands at the run's last reading when the run ends
Handle ==
    /\ event # NoEvent /\ response = NoResponse
    /\ \E backend \in BackendOutcomes, llm \in LlmOutcomes, clock \in RunClocks(event, now) :
          LET out == lambda_handler(event, prompt_cache, backend, llm, clock)
          IN  /\ ReadingsMade(clock, out.calls)
              /\ response' = out.response
              /\ calls' = out.calls
              /\ prompt_cache' = out.cache
              /\ env' = [backend |-> backend, clock |-> clock]
              /\ now' = clock.answered
    /\ UNCHANGED <<event, hcall, hret, kcall, kret, pc, local, acl, sync, raw, policy, pdf>>

Next == Receive \/ Handle \/ Tick

Spec == Init /\ [][Next]_vars

(***************************************************************************)
(* search_kendra_sharepoint.  A result item of the keyword index holds its *)
(* document attributes already keyed (DocumentAttributes), its title, its  *)
(* excerpt and its confidence; `kendra` is what the query call does.       *)
(***************************************************************************)
SP1 == [Id |-> "sp-1", DocumentURI |-> "https://sp/sites/fin/roadmap",
        DocumentTitle |-> "roadmap", DocumentExcerpt |-> "roadmap text",
        Type |-> "DOCUMENT", Format |-> "TEXT", ScoreConfidence |-> 85,
        DocumentAttributes |-> [Author |-> "b@x.com", Modified |-> "2024-01-15",
                                sharepoint_groups |-> <<"finance">>]]
SP2 == [Id |-> "sp-2", DocumentURI |-> "https://sp/sites/legal/nda",
        DocumentTitle |-> "nda", DocumentExcerpt |-> "",
        Type |-> "DOCUMENT", Format |-> "TEXT", ScoreConfidence |-> 80,
        DocumentAttributes |-> [Author |-> "b@x.com", access_users |-> <<"b@x.com">>,
                                denied_groups |-> <<"contractors">>,
                                sharepoint_groups |-> <<"finance", "legal">>]]
SharePointIndex == {SP1, SP2}

KendraOutcomes ==
    [raises : {TRUE}, relevant : {{}}]
    \cup [raises : {FALSE}, relevant : {{}, {SP1}, SharePointIndex}]

\* metadata.get(key, '')
Get(metadata, key, default) == IF key \in DOMAIN metadata THEN metadata[key] ELSE default

\* {**metadata, ...}: the keys of `more` override those of `metadata`
Merge(metadata, more) ==
    [k \in DOMAIN metadata \cup DOMAIN more |->
        IF k \in DOMAIN more THEN more[k] ELSE metadata[k]]

ProcessKendraItem(item) ==
    LET content == IF item.DocumentExcerpt # "" THEN item.DocumentExcerpt
                   ELSE item.DocumentTitle
        metadata == item.DocumentAttributes
    IN  [content |-> content,
         score |-> item.ScoreConfidence,
         location |-> [uri |-> item.DocumentURI, title |-> item.DocumentTitle,
                       id |-> item.Id],
         metadata |-> sanitize_sharepoint_metadata(
             Merge(metadata, [sharepoint_type |-> item.Type,
                              sharepoint_format |-> item.Format,
                              last_modified |-> Get(metadata, "Modified", ""),
                              author |-> Get(metadata, "Author", ""),
                              title |-> item.DocumentTitle]))]

\* the items of S by descending confidence
RECURSIVE ByConfidence(_)
ByConfidence(S) ==
    IF S = {} THEN <<>>
    ELSE LET top == CHOOSE d \in S : \A e \in S : e.ScoreConfidence <= d.ScoreConfidence
         IN  <<top>> \o ByConfidence(S \ {top})

\* kendra_client.query: with a user token the index applies its own access
\* control (the relevant items are those it lets the caller see); without
\* one the request carries the sharepoint_groups filter when there are groups
KendraQuery(relevant, user_token, user_groups, page_size) ==
    LET matching ==
            IF user_token = "" /\ user_groups # <<>>
            THEN {d \in relevant :
                    \E i \in 1..Len(user_groups) :
                        ListsGroup(d.DocumentAttributes, user_groups[i])}
            ELSE relevant
    IN  Prefix(ByConfidence(matching), page_size)

search_kendra_sharepoint(query, user_token, max_results, user_id, user_groups, kendra) ==
    IF kendra.raises
    THEN [results |-> <<>>, total_results |-> 0, error |-> "kendra error"]
    ELSE LET items == KendraQuery(kendra.relevant, user_token, user_groups, max_results)
             results == [i \in 1..Len(items) |-> ProcessKendraItem(items[i])]
         IN  [results |-> results, total_results |-> Len(results)]

(***************************************************************************)
(* retrieve_documents_hybrid                                               *)
(***************************************************************************)
ENABLE_SHAREPOINT_SEARCH == TRUE    \* the deployment that searches both sources

\* list.sort(key=score, reverse=True): stable, by descending score
\* an item put before the items of its own score
RECURSIVE InsertByScore_ties_first(_, _)
InsertByScore_ties_first(x, s) ==
    IF s = <<>> THEN <<x>>
    ELSE IF x.score >= s[1].score THEN <<x>> \o s
    ELSE <<s[1]>> \o InsertByScore_ties_first(x, Tail(s))

RECURSIVE InsertByScore(_, _)
InsertByScore(x, s) ==
    IF s = <<>> THEN <<x>>
    ELSE IF x.score > s[1].score THEN <<x>> \o s
    ELSE <<s[1]>> \o InsertByScore(x, Tail(s))

RECURSIVE SortByScore(_)
SortByScore(xs) ==
    IF xs = <<>> THEN <<>>
    ELSE InsertByScore(xs[Len(xs)], SortByScore(SubSeq(xs, 1, Len(xs) - 1)))

Tag(results, source, source_type) ==
    [i \in 1..Len(results) |->
        Merge(results[i], [source |-> source, source_type |-> source_type])]

retrieve_documents_hybrid(query, metadata_filters, max_results, search_sources, user_token, user_id, user_groups, backend, kendra, t) ==
    LET use_bedrock == Has(search_sources, "bedrock")
        use_sharepoint == Has(search_sources, "sharepoint") /\ ENABLE_SHAREPOINT_SEARCH
        bedrock_results == retrieve_documents(query, metadata_filters, max_results,
                                              backend, t)
        made == (IF use_bedrock THEN <<"retrieve">> ELSE <<>>)
    IN  IF use_bedrock /\ bedrock_results.raised
        THEN [raised |-> TRUE, calls |-> made]
        ELSE LET from_bedrock ==
                    IF use_bedrock
                    THEN Tag(bedrock_results.value.results, "bedrock", "pdf_documents")
                    ELSE <<>>
                 sharepoint_results ==
                    search_kendra_sharepoint(query, user_token, max_results, user_id,
                                             user_groups, kendra)
                 from_sharepoint ==
                    IF use_sharepoint
                    THEN Tag(sharepoint_results.results, "sharepoint", "sharepoint_pages")
                    ELSE <<>>
                 all_results == SortByScore(from_bedrock \o from_sharepoint)
                 final_results == Prefix(all_results, max_results)
                 searched == (IF use_bedrock THEN {"bedrock"} ELSE {})
                             \cup (IF use_sharepoint THEN {"sharepoint"} ELSE {})
                 source_info ==
                    [src \in searched |->
                        IF src = "bedrock"
                        THEN [total_results |-> bedrock_results.value.total_results,
                              search_type |-> "vector_semantic"]
                        ELSE [total_results |-> sharepoint_results.total_results,
                              search_type |-> "kendra_acl_filtered"]]
             IN  [raised |-> FALSE,
                  calls |-> made \o (IF use_sharepoint THEN <<"query">> ELSE <<>>),
                  value |-> [type |-> "retrieve_hybrid", query |-> query,
                             results |-> final_results,
                             total_results |-> Len(final_results),
                             sources_searched |-> search_sources,
                             source_info |-> source_info,
                             timestamp |-> isoformat(t)]]

(***************************************************************************)
(* retrieve_and_generate_with_caching_hybrid: the cached generation over   *)
(* the merged results; the sources searched are part of the cache key.     *)
(***************************************************************************)
HYBRID_RAG_PROMPT == "You are an expert AI assistant (PDF and SharePoint)"   \* get_system_prompt_for_hybrid_rag()

retrieve_and_generate_with_caching_hybrid(cache, query, metadata_filters, max_results, user_id, user_groups, search_sources, user_token, backend, kendra, llm, clock) ==
    LET documents == retrieve_documents_hybrid(query, metadata_filters, max_results,
                         search_sources, user_token, user_id, user_groups, backend,
                         kendra, clock.lookup)
    IN  IF documents.raised
        THEN [raised |-> TRUE, cache |-> cache, calls |-> documents.calls]
        ELSE IF NoResults(documents.value)
        THEN [raised |-> FALSE, cache |-> cache, calls |-> documents.calls,
              value |-> [type |-> "retrieve_and_generate_cached_hybrid", query |-> query,
                         generated_response |-> NO_RESULTS_MESSAGE, citations |-> <<>>,
                         sources_searched |-> search_sources,
                         cached |-> FALSE, timestamp |-> isoformat(clock.answered)]]
        ELSE LET system_prompt == HYBRID_RAG_PROMPT
                 cache_key == generate_cache_key(
                                  system_prompt \o "|" \o join("|", sorted(search_sources)),
                                  user_groups)
                 got == get_cached_prompt(cache, cache_key, clock.lookup)
                 gen == generate_with_claude_caching(got.cache, system_prompt, cache_key,
                                                     got.ret, user_groups, llm,
                                                     clock.stored)
                 trace == documents.calls \o got.log \o gen.calls
             IN  IF gen.raised
                 THEN [raised |-> TRUE, cache |-> gen.cache, calls |-> trace]
                 ELSE [raised |-> FALSE, cache |-> gen.cache, calls |-> trace,
                       value |-> [type |-> "retrieve_and_generate_cached_hybrid",
                                  query |-> query,
                                  generated_response |-> gen.value.generated_response,
                                  citations |-> create_citations_from_documents(
                                      documents.value.results,
                                      gen.value.generated_response),
                                  sources_searched |-> search_sources,
                                  source_info |-> documents.value.source_info,
                                  cached |-> gen.value.cached,
                                  cache_performance |-> gen.value.cache_performance,
                                  timestamp |-> isoformat(clock.answered)]]

(***************************************************************************)
(* Direct calls of retrieve_documents_hybrid (specification SpecHybrid)    *)
(***************************************************************************)
MaxResults == 3     \* max_results ranges over 1..MaxResults

HybridCalls ==
    [query : {"Q1 revenue"}, user_id : UserIds, user_groups : UserGroupLists,
     max_results : 1..MaxResults,
     search_sources : {<<"bedrock">>, <<"sharepoint">>, <<"bedrock", "sharepoint">>},
     user_token : {"", "jwt"}]

\* a caller that passed validation calls retrieve_documents_hybrid
CallHybrid ==
    /\ hcall = NoEvent \/ hret # NoEvent
    /\ \E c \in HybridCalls :
          /\ Validate(c.query, c.user_id, c.user_groups) = ""
          /\ hcall' = c
    /\ hret' = NoEvent
    /\ env' = NoEvent
    /\ UNCHANGED <<prompt_cache, now, event, response, calls, kcall, kret, pc, local, acl, sync, raw, policy, pdf>>

\* and the call runs to its end
ReturnHybrid ==
    /\ hcall # NoEvent /\ hret = NoEvent
    /\ \E backend \in BackendOutcomes, kendra \in KendraOutcomes :
          /\ env' = [backend |-> backend, kendra |-> kendra]
          /\ hret' = retrieve_documents_hybrid(hcall.query,
                        build_access_control_filters(hcall.user_id, hcall.user_groups),
                        hcall.max_results, hcall.search_sources, hcall.user_token,
                        hcall.user_id, hcall.user_groups, backend, kendra, now)
    /\ UNCHANGED <<prompt_cache, now, event, response, calls, hcall, kcall, kret, pc, local, acl, sync, raw, policy, pdf>>

NextHybrid == CallHybrid \/ ReturnHybrid

SpecHybrid == Init /\ [][NextHybrid]_vars

(***************************************************************************)
(* Direct calls of retrieve_and_generate_with_caching_hybrid               *)
(* (specification SpecHybridCached): a caller that asks over both sources, *)
(* and asks the same again.                                                *)
(***************************************************************************)
HybridCachedCalls ==
    [query : {"Q1 revenue"}, user_id : UserIds, user_groups : UserGroupLists,
     max_results : {MaxResults},
     search_sources : {<<"bedrock", "sharepoint">>, <<"sharepoint", "bedrock">>,
                       <<"sharepoint">>},
     user_token : {"", "jwt"}]

CallHybridCached ==
    /\ hcall = NoEvent
    /\ \E c \in HybridCachedCalls :
          /\ Validate(c.query, c.user_id, c.user_groups) = ""
          /\ hcall' = c
    /\ UNCHANGED <<prompt_cache, now, event, response, calls, env, hret, kcall, kret, pc, local, acl, sync, raw, policy, pdf>>

\* the caller asks again
RepeatHybridCached ==
    /\ hcall # NoEvent /\ hret # NoEvent
    /\ hret' = NoEvent
    /\ calls' = <<>>
    /\ env' = NoEvent
    /\ UNCHANGED <<prompt_cache, now, event, response, hcall, kcall, kret, pc, local, acl, sync, raw, policy, pdf>>

\* the call runs to its end, or to the exception it raises
ReturnHybridCached ==
    /\ hcall # NoEvent /\ hret = NoEvent
    /\ \E backend \in BackendOutcomes, kendra \in KendraOutcomes, llm \in LlmOutcomes, clock \in Clocks(now) :
          LET out == retrieve_and_generate_with_caching_hybrid(prompt_cache, hcall.query,
                         build_access_control_filters(hcall.user_id, hcall.user_groups),
                         hcall.max_results, hcall.user_id, hcall.user_groups,
                         hcall.search_sources, hcall.user_token, backend, kendra, llm,
                         clock)
          IN  /\ ReadingsMade(clock, out.calls)
              /\ hret' = IF out.raised THEN [raised |-> TRUE]
                         ELSE [raised |-> FALSE, value |-> out.value]
              /\ calls' = out.calls
              /\ prompt_cache' = out.cache
              /\ env' = [backend |-> backend, kendra |-> kendra, clock |-> clock]
              /\ now' = clock.answered
    /\ UNCHANGED <<event, response, hcall, kcall, kret, pc, local, acl, sync, raw, policy, pdf>>

NextHybridCached == CallHybridCached \/ RepeatHybridCached \/ ReturnHybridCached \/ Tick

SpecHybridCached == Init /\ [][NextHybridCached]_vars

(***************************************************************************)
(* Two callers and one prompt template (specification SpecKey): the first  *)
(* caller's request stores its entry, the second caller's request looks    *)
(* its own key up.                                                         *)
(***************************************************************************)
MaxGroups == 2      \* a caller of this scenario has at most this many groups

RECURSIVE SeqsUpTo(_, _)
SeqsUpTo(S, n) ==
    IF n = 0 THEN {<<>>}
    ELSE LET shorter == SeqsUpTo(S, n - 1)
         IN  shorter \cup {Append(q, x) : q \in shorter, x \in S}

GroupLists == SeqsUpTo(GroupNames, MaxGroups)

KeyCallers ==
    /\ kcall = NoEvent
    /\ kcall' \in [first : GroupLists, second : GroupLists]
    /\ UNCHANGED <<prompt_cache, now, event, response, calls, env, hcall, hret, kret, pc, local, acl, sync, raw, policy, pdf>>

KeyStore ==
    /\ kcall # NoEvent /\ prompt_cache = EmptyCache /\ kret = NoEvent
    /\ prompt_cache' =
          store_cached_prompt(prompt_cache, generate_cache_key(RAG_PROMPT, kcall.first),
                              [system_prompt |-> RAG_PROMPT, cache_creation_tokens |-> 1,
                               user_groups |-> kcall.first], now)
    /\ UNCHANGED <<now, event, response, calls, env, hcall, hret, kcall, kret, pc, local, acl, sync, raw, policy, pdf>>

KeyLookup ==
    /\ kcall # NoEvent /\ prompt_cache # EmptyCache /\ kret = NoEvent
    /\ LET got == get_cached_prompt(prompt_cache,
                                    generate_cache_key(RAG_PROMPT, kcall.second), now)
       IN  /\ kret' = got.ret
           /\ prompt_cache' = got.cache
    /\ UNCHANGED <<now, event, response, calls, env, hcall, hret, kcall, pc, local, acl, sync, raw, policy, pdf>>

NextKey == KeyCallers \/ KeyStore \/ KeyLookup

SpecKey == Init /\ [][NextKey]_vars

(***************************************************************************)
(* Overlapping requests on one cache key (specification SpecConc): each    *)
(* client runs get_cached_prompt or store_cached_prompt, one dict          *)
(* operation or clock reading at a time.                                   *)
(***************************************************************************)
SharedKey == generate_cache_key(RAG_PROMPT, <<"finance">>)
SharedData == [system_prompt |-> RAG_PROMPT, cache_creation_tokens |-> 1,
               user_groups |-> <<"finance">>]

ConcFrame == UNCHANGED <<now, event, response, calls, env, hcall, hret, kcall, kret, acl, sync, raw, policy, pdf>>

\* a client enters get_cached_prompt
GetCall(c) ==
    /\ pc[c] = "idle"
    /\ pc' = [pc EXCEPT ![c] = "get_in"]
    /\ local' = [local EXCEPT ![c] = [op |-> "get"]]
    /\ UNCHANGED prompt_cache /\ ConcFrame

\* if cache_key in prompt_cache
GetIn(c) ==
    /\ pc[c] = "get_in"
    /\ IF SharedKey \in DOMAIN prompt_cache
       THEN pc' = [pc EXCEPT ![c] = "get_read"] /\ UNCHANGED local
       ELSE /\ pc' = [pc EXCEPT ![c] = "returned"]
            /\ local' = [local EXCEPT ![c] = [op |-> "get", ret |-> None]]
    /\ UNCHANGED prompt_cache /\ ConcFrame

\* cached_data = prompt_cache[cache_key]
GetRead(c) ==
    /\ pc[c] = "get_read"
    /\ IF SharedKey \in DOMAIN prompt_cache
       THEN /\ pc' = [pc EXCEPT ![c] = "get_compare"]
            /\ local' = [local EXCEPT ![c] =
                            [op |-> "get", cached_data |-> prompt_cache[SharedKey]]]
       ELSE /\ pc' = [pc EXCEPT ![c] = "raised"]
            /\ local' = [local EXCEPT ![c] = [op |-> "get", error |-> "KeyError"]]
    /\ UNCHANGED prompt_cache /\ ConcFrame

\* if datetime.utcnow() - cache_time < timedelta(minutes=CACHE_TTL_MINUTES)
GetCompare(c) ==
    /\ pc[c] = "get_compare"
    /\ IF now - fromisoformat(local[c].cached_data.timestamp) < CACHE_TTL_MINUTES
       THEN /\ pc' = [pc EXCEPT ![c] = "returned"]
            /\ local' = [local EXCEPT ![c] = [op |-> "get", ret |-> local[c].cached_data]]
       ELSE pc' = [pc EXCEPT ![c] = "get_del"] /\ UNCHANGED local
    /\ UNCHANGED prompt_cache /\ ConcFrame

\* del prompt_cache[cache_key]; return None
GetDel(c) ==
    /\ pc[c] = "get_del"
    /\ IF SharedKey \in DOMAIN prompt_cache
       THEN /\ prompt_cache' = Remove(prompt_cache, SharedKey)
            /\ pc' = [pc EXCEPT ![c] = "returned"]
            /\ local' = [local EXCEPT ![c] = [op |-> "get", ret |-> None]]
       ELSE /\ pc' = [pc EXCEPT ![c] = "raised"]
            /\ local' = [local EXCEPT ![c] = [op |-> "get", error |-> "KeyError"]]
            /\ UNCHANGED prompt_cache
    /\ ConcFrame

\* a client enters store_cached_prompt and builds the entry
StoreBuild(c) ==
    /\ pc[c] = "idle"
    /\ pc' = [pc EXCEPT ![c] = "store_assign"]
    /\ local' = [local EXCEPT ![c] =
                    [op |-> "store", entry |-> NewCacheEntry(SharedData, now)]]
    /\ UNCHANGED prompt_cache /\ ConcFrame

\* prompt_cache[cache_key] = {...}
StoreAssign(c) ==
    /\ pc[c] = "store_assign"
    /\ prompt_cache' = [k \in DOMAIN prompt_cache \cup {SharedKey} |->
                           IF k = SharedKey THEN local[c].entry ELSE prompt_cache[k]]
    /\ pc' = [pc EXCEPT ![c] = "returned"]
    /\ local' = [local EXCEPT ![c] = [op |-> "store", ret |-> None]]
    /\ ConcFrame

\* the request that made the call ends
Leave(c) ==
    /\ pc[c] \in {"returned", "raised"}
    /\ pc' = [pc EXCEPT ![c] = "idle"]
    /\ local' = [local EXCEPT ![c] = Idle]
    /\ UNCHANGED prompt_cache /\ ConcFrame

ClientStep(c) ==
    \/ GetCall(c) \/ GetIn(c) \/ GetRead(c) \/ GetCompare(c) \/ GetDel(c)
    \/ StoreBuild(c) \/ StoreAssign(c) \/ Leave(c)

NextConc == Tick \/ \E c \in Clients : ClientStep(c)

SpecConc == Init /\ [][NextConc]_vars

(***************************************************************************)
(* Properties of the request handler (specification Spec)                  *)
(***************************************************************************)
Pending == event # NoEvent /\ response = NoResponse
Served == event # NoEvent /\ response # NoResponse
Wellformed == Served /\ "malformed" \notin DOMAIN event
Valid == Wellformed /\ event.query # "" /\ ~(event.user_id = "" /\ event.user_groups = <<>>)

AclKeys == {"access_users", "access_groups", "denied_users", "denied_groups"}

\* the metadata objects a response body carries
RefMetadata(citations) ==
    UNION {{citations[i].retrievedReferences[j].metadata :
                j \in 1..Len(citations[i].retrievedReferences)} :
           i \in 1..Len(citations)}
BodyMetadata(body) ==
    (IF "results" \in DOMAIN body
     THEN {body.results[i].metadata : i \in 1..Len(body.results)} ELSE {})
    \cup (IF "citations" \in DOMAIN body THEN RefMetadata(body.citations) ELSE {})

\* the principals of a stored field: the list that '|'.join wrote as s
unjoin(s) ==
    CASE s = ""              -> <<>>
      [] s = "finance|legal" -> <<"finance", "legal">>
      [] OTHER               -> <<s>>

\* the field k of the metadata lists the principal v
ListsValue(metadata, k, v) == k \in DOMAIN metadata /\ Has(unjoin(metadata[k]), v)

\* the documents the retrieval service found for the request served
Filter == build_access_control_filters(event.user_id, event.user_groups)
Retrieved == VectorRetrieve(env.backend.relevant, Filter, event.max_results)

\* C2: a request with an empty query, or with neither user id nor groups, is
\* answered 400 with the envelope {error, timestamp}; serving it calls no
\* retrieval service and no model, logs no cache access and leaves the cache
\* as it was.
C2_ValidationFirst ==
    [][(Pending /\ response' # NoResponse /\ "malformed" \notin DOMAIN event
        /\ (event.query = "" \/ (event.user_id = "" /\ event.user_groups = <<>>)))
       => /\ response'.statusCode = 400
          /\ DOMAIN response'.body = {"error", "timestamp"}
          /\ calls' = <<>>
          /\ prompt_cache' = prompt_cache]_vars

C2_Witness ==
    /\ Wellformed /\ event.query # "" /\ event.user_id = "" /\ event.user_groups = <<>>
    /\ response.statusCode = 400

\* C3: no metadata object of a response carries access_users, access_groups,
\* denied_users or denied_groups.
C3_NoAclKeysInResponses ==
    Served => \A m \in BodyMetadata(response.body) : DOMAIN m \cap AclKeys = {}

\* C4: for every caller that passes validation the compiled predicate has the
\* condition classification = public, every public document satisfies it, and
\* a retrieve request returns the public document whenever the index finds it
\* relevant.
C4_PublicAlwaysRetrievable ==
    Valid =>
        /\ Has(Filter.orAll, Equals("classification", "public"))
        /\ \A d \in KnowledgeBase :
              d.metadata.classification = "public" => SatisfiesFilter(Filter, d.metadata)
        /\ (event.type = "retrieve" /\ ~env.backend.raises /\ KB1 \in env.backend.relevant)
              => /\ response.statusCode = 200
                 /\ \E i \in 1..Len(response.body.results) :
                       response.body.results[i].content = KB1.content

\* a caller with an identity of their own is served the public document
C4_Witness ==
    /\ Valid /\ event.type = "retrieve" /\ event.user_id # "" /\ event.user_groups # <<>>
    /\ ~env.backend.raises /\ KB1 \in env.backend.relevant
    /\ response.statusCode = 200 /\ response.body.results[1] = ProcessResult(KB1)

\* C5: the compiled predicate is, in order, access_users = u and created_by = u
\* (when u is not empty), access_groups = g for each group g, and
\* classification = public; a document satisfies it exactly when it lists u in
\* access_users, or has u as created_by, or lists a group of the caller in
\* access_groups, or is public.  For a@x.com with [finance] and the candidates
\* public, finance, legal, the first two are returned, by descending score.
C5_PredicateShape ==
    Valid =>
        LET u == event.user_id
            G == event.user_groups
            n == IF u # "" THEN 2 ELSE 0
            f == Filter.orAll
        IN  /\ DOMAIN Filter = {"orAll"}
            /\ Len(f) = n + Len(G) + 1
            /\ u # "" => f[1] = Equals("access_users", u) /\ f[2] = Equals("created_by", u)
            /\ \A i \in 1..Len(G) : f[n + i] = Equals("access_groups", G[i])
            /\ f[Len(f)] = Equals("classification", "public")
            /\ \A d \in KnowledgeBase :
                  SatisfiesFilter(Filter, d.metadata)
                  <=> \/ u # "" /\ ListsValue(d.metadata, "access_users", u)
                      \/ u # "" /\ "created_by" \in DOMAIN d.metadata
                               /\ d.metadata.created_by = u
                      \/ \E i \in 1..Len(G) : ListsValue(d.metadata, "access_groups", G[i])
                      \/ d.metadata.classification = "public"
            /\ (event.type = "retrieve" /\ u = "a@x.com" /\ G = <<"finance">>
                /\ env.backend = [raises |-> FALSE, relevant |-> {KB1, KB2, KB3}])
               => /\ response.statusCode = 200
                  /\ response.body.total_results = 2
                  /\ response.body.results = <<ProcessResult(KB1), ProcessResult(KB2)>>

C5_Witness ==
    /\ Valid /\ event.type = "retrieve"
    /\ event.user_id = "a@x.com" /\ event.user_groups = <<"finance">>
    /\ env.backend = [raises |-> FALSE, relevant |-> {KB1, KB2, KB3}]
    /\ Len(response.body.results) = 2

\* C7: a cached generate request that stores an entry stamps it with the
\* clock reading of the store; a later request with the same groups whose
\* lookup reads the clock less than the TTL after that time logs a hit and no
\* miss, and one whose lookup reads it at or after the TTL logs a miss and no
\* hit.
C7_HitWithinTtlMissAfter ==
    [][(Pending /\ response' # NoResponse)
       => LET key == generate_cache_key(RAG_PROMPT, event.user_groups)
          IN  /\ Has(calls', "Stored cache")
                 => /\ key \in DOMAIN prompt_cache'
                    /\ fromisoformat(prompt_cache'[key].timestamp) = env'.clock.stored
                    /\ response'.statusCode = 200
              /\ (Has(calls', "Cache hit") \/ Has(calls', "Cache miss"))
                 => IF key \in DOMAIN prompt_cache
                       /\ env'.clock.lookup - fromisoformat(prompt_cache[key].timestamp)
                          < CACHE_TTL_MINUTES
                    THEN Has(calls', "Cache hit") /\ ~Has(calls', "Cache miss")
                    ELSE Has(calls', "Cache miss") /\ ~Has(calls', "Cache hit")]_vars

\* a repeated request hits an entry stored a minute earlier
C7_Witness ==
    /\ Served /\ Has(calls, "Cache hit")
    /\ LET key == generate_cache_key(RAG_PROMPT, event.user_groups)
       IN  /\ key \in DOMAIN prompt_cache
           /\ fromisoformat(prompt_cache[key].timestamp) < env.clock.lookup

\* the calls that have a generative model write an answer
GenerativeCalls == {"invoke_model", "retrieve_and_generate"}

NoDocumentsAnswer ==
    /\ response.statusCode = 200
    /\ response.body.generated_response = NO_RESULTS_MESSAGE
    /\ response.body.citations = <<>>
    /\ \A i \in 1..Len(calls) : calls[i] \notin GenerativeCalls

\* C9 as stated: every retrieve_and_generate request for which the retrieval
\* finds no document is answered with the fixed message and no citation, and
\* calls no generative model.
C9_Original ==
    (Valid /\ event.type = "retrieve_and_generate" /\ ~env.backend.raises /\ Retrieved = <<>>)
        => NoDocumentsAnswer

\* C9 as amended: the same of the requests served with prompt caching.
C9_NoResultsShortCircuit ==
    (Valid /\ event.type = "retrieve_and_generate" /\ event.use_caching
     /\ ~env.backend.raises /\ Retrieved = <<>>)
        => NoDocumentsAnswer

\* the index held a document, none of which the caller may see
C9_Witness ==
    /\ Valid /\ event.type = "retrieve_and_generate" /\ event.use_caching
    /\ ~env.backend.raises /\ env.backend.relevant # {} /\ Retrieved = <<>>
    /\ response.body.generated_response = NO_RESULTS_MESSAGE

(***************************************************************************)
(* Properties of the hybrid retrieval (specification SpecHybrid)           *)
(***************************************************************************)
HybridReturned == hcall # NoEvent /\ hret # NoEvent

\* the principals that the document a merged result was made from lists in
\* a field of its access metadata
SourceList(r, field) ==
    IF r.source = "bedrock"
    THEN unjoin(Get((CHOOSE d \in KnowledgeBase :
                        ProcessResult(d).content = r.content).metadata, field, ""))
    ELSE Get((CHOOSE item \in SharePointIndex :
                 ProcessKendraItem(item).location = r.location).DocumentAttributes,
             field, <<>>)

Denies(r, user_id, user_groups) ==
    \/ Has(SourceList(r, "denied_users"), user_id)
    \/ \E i \in 1..Len(user_groups) : Has(SourceList(r, "denied_groups"), user_groups[i])

\* C1: the merged result set of a hybrid retrieval holds no document whose
\* deny list names the calling user or one of the caller's groups.
C1_DenyOverridesAllow ==
    (HybridReturned /\ ~hret.raised) =>
        \A i \in 1..Len(hret.value.results) :
            ~Denies(hret.value.results[i], hcall.user_id, hcall.user_groups)

Searched(source) == Has(hcall.search_sources, source)
BedrockFailed == Searched("bedrock") /\ env.backend.raises
SharePointFailed == Searched("sharepoint") /\ env.kendra.raises

\* C10: when one backend of a hybrid retrieval fails, the call still returns:
\* the failed backend counts for an empty result set with an error annotation
\* in the provenance summary, and the results are those of the other backend.
C10_BackendFailureIsolated ==
    (HybridReturned /\ (BedrockFailed \/ SharePointFailed)) =>
        /\ ~hret.raised
        /\ BedrockFailed =>
              /\ hret.value.source_info.bedrock.total_results = 0
              /\ "error" \in DOMAIN hret.value.source_info.bedrock
        /\ SharePointFailed =>
              /\ hret.value.source_info.sharepoint.total_results = 0
              /\ "error" \in DOMAIN hret.value.source_info.sharepoint
        /\ hret.value.results =
              retrieve_documents_hybrid(
                  hcall.query, build_access_control_filters(hcall.user_id, hcall.user_groups),
                  hcall.max_results, hcall.search_sources, hcall.user_token,
                  hcall.user_id, hcall.user_groups,
                  IF env.backend.raises THEN [raises |-> FALSE, relevant |-> {}]
                  ELSE env.backend,
                  env.kendra, now).value.results

(***************************************************************************)
(* Properties of the cache key (specification SpecKey)                     *)
(***************************************************************************)
Range(q) == {q[i] : i \in 1..Len(q)}
Disjoint(g1, g2) == Range(g1) \cap Range(g2) = {}

\* C6: two callers that both have groups, and share none, get different
\* cache keys for the same prompt template, so the second caller's lookup
\* never returns the entry the first caller stored.
C6_DisjointGroupsDisjointKeys ==
    (kret # NoEvent /\ kcall.first # <<>> /\ kcall.second # <<>>
       /\ Disjoint(kcall.first, kcall.second)) =>
        /\ generate_cache_key(RAG_PROMPT, kcall.first)
              # generate_cache_key(RAG_PROMPT, kcall.second)
        /\ kret = None

(***************************************************************************)
(* Properties of overlapping cache operations (specification SpecConc)     *)
(***************************************************************************)
EntryFields == {"system_prompt", "cache_creation_tokens", "user_groups", "timestamp"}

\* an entry as store_cached_prompt writes it, stamped no later than now
CompleteEntry(e) ==
    /\ DOMAIN e = EntryFields
    /\ e.system_prompt = SharedData.system_prompt
    /\ e.cache_creation_tokens = SharedData.cache_creation_tokens
    /\ e.user_groups = SharedData.user_groups
    /\ fromisoformat(e.timestamp) \in 59..now

\* C8: with lookups and stores of overlapping requests interleaved step by
\* step, the map holds complete entries only, and a lookup that returns gives
\* None or a complete entry, never a partly written one.
C8_NoPartialEntry ==
    /\ \A k \in DOMAIN prompt_cache : CompleteEntry(prompt_cache[k])
    /\ \A c \in Clients :
          (pc[c] = "returned" /\ local[c].op = "get") =>
              (local[c].ret = None \/ CompleteEntry(local[c].ret))

\* a lookup has returned an entry while another request is between building
\* its entry and assigning it
C8_Witness ==
    \E c, d \in Clients :
        /\ pc[c] = "returned" /\ local[c].op = "get" /\ local[c].ret # None
        /\ pc[d] = "store_assign"
        /\ SharedKey \in DOMAIN prompt_cache

(***************************************************************************)
(* Failures of the services behind a generate request (specification Spec) *)
(***************************************************************************)
Generate == Valid /\ event.type = "retrieve_and_generate"

ErrorEnvelope(status) ==
    response.statusCode = status /\ DOMAIN response.body = {"error", "timestamp"}

\* C11: when the retrieval service fails for a retrieve_and_generate request,
\* the request ends with status 200 and the fixed no-documents answer, not
\* with an error response.
C11_AllBackendsFailNoDocuments ==
    (Generate /\ env.backend.raises) =>
        /\ response.statusCode = 200
        /\ response.body.generated_response = NO_RESULTS_MESSAGE

Count(seq, x) == Cardinality({i \in 1..Len(seq) : seq[i] = x})

\* C12: when the generative call of a retrieve_and_generate request fails,
\* the caller gets the status 500 envelope {error, timestamp} and the
\* generative service was called exactly once in that run.
C12_GenerationFailureIs500 ==
    /\ (Generate /\ Has(calls, "Error generating with Claude caching"))
          => ErrorEnvelope(500) /\ Count(calls, "invoke_model") = 1
    /\ (Generate /\ ~event.use_caching /\ env.backend.raises)
          => ErrorEnvelope(500) /\ Count(calls, "retrieve_and_generate") = 1

\* the model service failed after the documents were retrieved and the cache
\* was consulted
C12_Witness ==
    /\ Generate /\ event.use_caching /\ Retrieved # <<>>
    /\ Has(calls, "Error generating with Claude caching")
    /\ response.statusCode = 500

(***************************************************************************)
(* The ACL normalizer of src/sharepoint_sync.py.  A document attribute is  *)
(* the `Value` record of the index: [StringValue |-> s] or                 *)
(* [StringListValue |-> <<s, ...>>].  A JSON text is a string.             *)
(***************************************************************************)
AllowAlice ==
    "{\"principal\": \"alice\", \"type\": \"user\", \"access\": \"allow\", \"permissions\": [\"read\"], \"inheritance\": \"direct\"}"
AllowFinance ==
    "{\"principal\": \"finance\", \"type\": \"Group\", \"access\": \"Allow\", \"permissions\": [\"full control\"], \"inheritance\": \"inherited\"}"
DenyAlice ==
    "{\"principal\": \"alice\", \"type\": \"user\", \"access\": \"deny\", \"permissions\": [], \"inheritance\": \"direct\"}"
DenyLegal ==
    "{\"principal\": \"legal\", \"type\": \"group\", \"access\": \"deny\", \"permissions\": [\"read\"], \"inheritance\": \"direct\"}"
AllowAuditor ==
    "{\"principal\": \"auditor\", \"type\": \"role\", \"access\": \"allow\", \"permissions\": [\"read\"], \"inheritance\": \"inherited\"}"
OnlyPrincipal == "{\"principal\": \"bob\"}"
\* the entry with its kind under the name principal_type
AllowFinanceByPrincipalType ==
    "{\"principal\": \"finance\", \"principal_type\": \"group\", \"access\": \"allow\", \"permissions\": [\"read\"], \"inheritance\": \"direct\"}"
NotJson == "finance:allow"
NotAnObject == "[\"alice\"]"
PermissionsJson == "{\"alice\": [\"read\"]}"

AclEntries ==
    {AllowAlice, AllowFinance, DenyAlice, DenyLegal, AllowAuditor, OnlyPrincipal,
     AllowFinanceByPrincipalType, NotJson, NotAnObject}

\* json.loads: the value a text encodes, or JSONDecodeError
json_loads(text) ==
    CASE text = AllowAlice ->
            [raised |-> FALSE, kind |-> "object",
             obj |-> [principal |-> "alice", type |-> "user", access |-> "allow",
                      permissions |-> <<"read">>, inheritance |-> "direct"]]
      [] text = AllowFinance ->
            [raised |-> FALSE, kind |-> "object",
             obj |-> [principal |-> "finance", type |-> "Group", access |-> "Allow",
                      permissions |-> <<"full control">>, inheritance |-> "inherited"]]
      [] text = DenyAlice ->
            [raised |-> FALSE, kind |-> "object",
             obj |-> [principal |-> "alice", type |-> "user", access |-> "deny",
                      permissions |-> <<>>, inheritance |-> "direct"]]
      [] text = DenyLegal ->
            [raised |-> FALSE, kind |-> "object",
             obj |-> [principal |-> "legal", type |-> "group", access |-> "deny",
                      permissions |-> <<"read">>, inheritance |-> "direct"]]
      [] text = AllowAuditor ->
            [raised |-> FALSE, kind |-> "object",
             obj |-> [principal |-> "auditor", type |-> "role", access |-> "allow",
                      permissions |-> <<"read">>, inheritance |-> "inherited"]]
      [] text = OnlyPrincipal ->
            [raised |-> FALSE, kind |-> "object", obj |-> [principal |-> "bob"]]
      [] text = AllowFinanceByPrincipalType ->
            [raised |-> FALSE, kind |-> "object",
             obj |-> [principal |-> "finance", principal_type |-> "group",
                      access |-> "allow", permissions |-> <<"read">>,
                      inheritance |-> "direct"]]
      [] text = NotAnObject -> [raised |-> FALSE, kind |-> "array"]
      [] text = PermissionsJson ->       \* its inner array is tagged, to tell it from a dict
            [raised |-> FALSE, kind |-> "object", obj |-> [alice |-> [array |-> <<"read">>]]]
      [] OTHER -> [raised |-> TRUE, error |-> "JSONDecodeError"]

\* str.lower on the words the entries use
lower_identity(s) == s

lower(s) ==
    CASE s = "Group" -> "group"
      [] s = "Allow" -> "allow"
      [] s = "Full_Control" -> "full_control"
      [] OTHER -> s

\* the orders in which a set of the given strings may be iterated
HashOrders(S) ==
    {f \in [1..Cardinality(S) -> S] : \A i, j \in 1..Cardinality(S) : f[i] = f[j] => i = j}

\* list(set(xs))[:2]
ListOfSet_truncated(xs, order) ==
    Prefix(SelectSeq(order, LAMBDA x : Has(xs, x)), 2)

\* list(set(xs)): the distinct items of xs, in the iteration order of the set
ListOfSet(xs, order) == SelectSeq(order, LAMBDA x : Has(xs, x))

EmptyAcl ==
    [allowed_users |-> <<>>, allowed_groups |-> <<>>, denied_users |-> <<>>,
     denied_groups |-> <<>>, permission_levels |-> <<>>, inheritance_info |-> <<>>]

\* the body of the loop over acl_list for one entry: the acl_data it leaves,
\* or the exception that leaves the loop
ParseEntry(acl_data, acl_entry) ==
    LET loaded == json_loads(acl_entry)
    IN  IF loaded.raised THEN acl_data          \* except JSONDecodeError: continue
        ELSE IF loaded.kind # "object"
        THEN [raised |-> TRUE, error |-> "AttributeError"]
        ELSE LET acl_obj == loaded.obj
                 principal == Get(acl_obj, "principal", "")
                 principal_type == Get(acl_obj, "type", "user")
                 permissions == Get(acl_obj, "permissions", <<>>)
                 access_type == Get(acl_obj, "access", "allow")
                 inheritance == Get(acl_obj, "inheritance", "inherited")
                 field ==
                    IF lower(access_type) = "allow"
                    THEN IF lower(principal_type) = "group"
                         THEN "allowed_groups" ELSE "allowed_users"
                    ELSE IF lower(access_type) = "deny"
                    THEN IF lower(principal_type) = "group"
                         THEN "denied_groups" ELSE "denied_users"
                    ELSE "none"
                 level == [permissions |-> permissions, type |-> principal_type,
                           access |-> access_type, inheritance |-> inheritance]
                 levels == acl_data.permission_levels
             IN  [k \in DOMAIN acl_data |->
                    IF k = field THEN Append(acl_data[k], principal)
                    ELSE IF k = "permission_levels"
                    THEN [q \in DOMAIN levels \cup {principal} |->
                             IF q = principal THEN level ELSE levels[q]]
                    ELSE acl_data[k]]

RECURSIVE ParseEntries(_, _)
ParseEntries(acl_data, acl_list) ==
    IF acl_list = <<>> THEN acl_data
    ELSE LET next == ParseEntry(acl_data, Head(acl_list))
         IN  IF "raised" \in DOMAIN next THEN next
             ELSE ParseEntries(next, Tail(acl_list))

AclListFields == {"allowed_users", "allowed_groups", "denied_users", "denied_groups"}

\* "Remove duplicates"
Deduplicate(acl_data, order) ==
    [k \in DOMAIN acl_data |->
        IF k \in AclListFields THEN ListOfSet(acl_data[k], order) ELSE acl_data[k]]

\* parse_sharepoint_acl_v2 without its outer except clause
parse_sharepoint_acl_v2_unguarded(acl_list, order) ==
    LET acl_data == ParseEntries(EmptyAcl, acl_list)
    IN  IF "raised" \in DOMAIN acl_data THEN acl_data ELSE Deduplicate(acl_data, order)

parse_sharepoint_acl_v2(acl_list, order) ==
    LET acl_data == ParseEntries(EmptyAcl, acl_list)
    IN  IF "raised" \in DOMAIN acl_data THEN EmptyAcl ELSE Deduplicate(acl_data, order)

\* isinstance(value, list) / isinstance(value, str) of an attribute value
IsList(value) == "StringListValue" \in DOMAIN value
IsStr(value) == "StringValue" \in DOMAIN value

\* value if isinstance(value, list) else [value]
AsList(value) == IF IsList(value) THEN value.StringListValue ELSE <<value.StringValue>>

\* "Check for V2 template ACL fields"
PrimaryFields(metadata) ==
    [k \in DOMAIN EmptyAcl |->
        IF k \in AclListFields /\ ("_acl_" \o k) \in DOMAIN metadata
        THEN AsList(metadata["_acl_" \o k])
        ELSE EmptyAcl[k]]

\* "V2 template permission level extraction"
PermissionLevels(metadata, acl_data) ==
    IF "_acl_permissions" \notin DOMAIN metadata THEN acl_data
    ELSE LET value == metadata["_acl_permissions"]
             permissions_data ==
                IF IsStr(value) THEN json_loads(value.StringValue)
                ELSE [raised |-> FALSE, kind |-> "array"]
         IN  IF ~permissions_data.raised /\ permissions_data.kind = "object"
             THEN [acl_data EXCEPT !.permission_levels = permissions_data.obj]
             ELSE acl_data

AlternateFieldName(acl_key) ==
    CASE acl_key = "allowed_users" -> "_allowed_principals"
      [] acl_key = "allowed_groups" -> "_allowed_groups"
      [] acl_key = "denied_users" -> "_denied_principals"
      [] acl_key = "denied_groups" -> "_denied_groups"

\* the alternate field names never tried
AlternateFields_skipped(metadata, acl_data) == acl_data

\* "Alternative V2 template field names (fallback)"
AlternateFields(metadata, acl_data) ==
    IF acl_data.allowed_users = <<>> /\ acl_data.allowed_groups = <<>>
    THEN [k \in DOMAIN acl_data |->
            IF k \in AclListFields /\ AlternateFieldName(k) \in DOMAIN metadata
            THEN AsList(metadata[AlternateFieldName(k)])
            ELSE acl_data[k]]
    ELSE acl_data

\* "Clean up and deduplicate": list(set([str(item) for item in xs if item]))
CleanUp(acl_data, order) ==
    [k \in DOMAIN acl_data |->
        IF k \in AclListFields /\ acl_data[k] # <<>>
        THEN ListOfSet(SelectSeq(acl_data[k], LAMBDA item : item # ""), order)
        ELSE acl_data[k]]

extract_acl_from_v2_template_metadata(metadata, order) ==
    CleanUp(AlternateFields(metadata,
                PermissionLevels(metadata, PrimaryFields(metadata))), order)

\* extract_document_with_acl: the acl_data of the document it returns, for an
\* item with an excerpt
extract_document_with_acl(DocumentAttributes, order) ==
    LET metadata == DocumentAttributes
        structured ==
            IF "sharepoint_acl_v2" \in DOMAIN DocumentAttributes
               /\ IsList(DocumentAttributes["sharepoint_acl_v2"])
            THEN parse_sharepoint_acl_v2(
                     DocumentAttributes["sharepoint_acl_v2"].StringListValue, order)
            ELSE [allowed_users |-> <<>>, allowed_groups |-> <<>>,
                  denied_users |-> <<>>, denied_groups |-> <<>>]
    IN  IF "raised" \in DOMAIN structured THEN None     \* except Exception: return None
        ELSE IF structured.allowed_users = <<>> /\ structured.allowed_groups = <<>>
        THEN extract_acl_from_v2_template_metadata(metadata, order)
        ELSE structured

(***************************************************************************)
(* The sync normalizing the ACL attributes of one crawled item, twice      *)
(* (specification SpecAcl)                                                 *)
(***************************************************************************)
MaxEntries == 3     \* a structured ACL list has at most this many entries

AclLists == SeqsUpTo(AclEntries, MaxEntries)

SV(s) == [StringValue |-> s]
SLV(xs) == [StringListValue |-> xs]

NoAttributes == [k \in {} |-> SV("")]

PrimaryAttributes ==
    {NoAttributes,
     [_acl_allowed_users |-> SV("alice")],
     [_acl_allowed_users |-> SLV(<<"alice", "bob", "alice">>),
      _acl_denied_groups |-> SLV(<<"legal">>)],
     [_acl_denied_users |-> SV("bob")],
     [_acl_permissions |-> SV(PermissionsJson)],
     [_acl_permissions |-> SV(NotJson), _acl_allowed_groups |-> SV("finance")]}

AlternateAttributes ==
    {NoAttributes,
     [_allowed_principals |-> SV("alice")],
     [_allowed_principals |-> SLV(<<"alice", "", "bob">>),
      _allowed_groups |-> SLV(<<"finance">>),
      _denied_principals |-> SV("bob"),
      _denied_groups |-> SLV(<<"legal", "legal">>)],
     [_denied_groups |-> SV("legal")],
     [_allowed_groups |-> SLV(<<>>), _denied_principals |-> SV("")]}

\* the attributes of a crawled item: a structured list, or template fields,
\* or a structured list next to alternate fields
RawAttributes ==
    {[sharepoint_acl_v2 |-> SLV(acl_list)] : acl_list \in AclLists}
    \cup {Merge(p, a) : p \in PrimaryAttributes, a \in AlternateAttributes}
    \cup {Merge([sharepoint_acl_v2 |-> SLV(acl_list)], a) :
             acl_list \in {<<NotJson>>, <<DenyLegal>>, <<NotAnObject, AllowAlice>>,
                           <<AllowAlice>>},
             a \in AlternateAttributes \ {NoAttributes}}

\* the principals the attributes name
Principals(attributes) ==
    UNION {IF k = "sharepoint_acl_v2"
           THEN {Get(json_loads(e).obj, "principal", "") :
                    e \in {x \in Range(attributes[k].StringListValue) :
                              ~json_loads(x).raised /\ json_loads(x).kind = "object"}}
           ELSE IF k = "_acl_permissions" THEN {}
           ELSE Range(AsList(attributes[k])) :
           k \in DOMAIN attributes}

StructuredList(attributes) ==
    IF "sharepoint_acl_v2" \in DOMAIN attributes
    THEN attributes["sharepoint_acl_v2"].StringListValue ELSE <<>>

\* the connector hands over an item
Crawl ==
    /\ raw = NoEvent
    /\ raw' \in RawAttributes
    /\ UNCHANGED <<prompt_cache, now, event, response, calls, env, hcall, hret, kcall, kret, pc, local, acl, sync, policy, pdf>>

\* one run of the normalizer over the item, sets iterated in some order
Normalize ==
    /\ raw # NoEvent /\ Len(policy) < 2
    /\ \E order \in HashOrders(Principals(raw)) :
          policy' = Append(policy,
                       [parsed |-> parse_sharepoint_acl_v2(StructuredList(raw), order),
                        extracted |-> extract_acl_from_v2_template_metadata(raw, order),
                        document |-> extract_document_with_acl(raw, order)])
    /\ UNCHANGED <<prompt_cache, now, event, response, calls, env, hcall, hret, kcall, kret, pc, local, acl, sync, raw, pdf>>

NextAcl == Crawl \/ Normalize

SpecAcl == Init /\ [][NextAcl]_vars

(***************************************************************************)
(* Properties of the ACL normalizer (specification SpecAcl)                *)
(***************************************************************************)
Runs == 1..Len(policy)

IsEntryObject(text) == ~json_loads(text).raised /\ json_loads(text).kind = "object"

\* a policy: the four fields are there, each a list of principals the
\* attributes name, and nothing was raised
ValidPolicy(p) ==
    /\ "raised" \notin DOMAIN p
    /\ AclListFields \subseteq DOMAIN p
    /\ "permission_levels" \in DOMAIN p
    /\ \A k \in AclListFields :
          /\ DOMAIN p[k] = 1..Len(p[k])
          /\ Range(p[k]) \subseteq Principals(raw)

NothingParses(acl_list) == \A i \in 1..Len(acl_list) : ~IsEntryObject(acl_list[i])

\* C13: whatever the attributes hold (texts that are not JSON, JSON that is
\* not an object, entries with fields missing, single values for lists),
\* parse_sharepoint_acl_v2 and extract_acl_from_v2_template_metadata return
\* a policy with its four list fields and raise nothing; the fields are empty
\* when no entry of the list could be parsed.
C13_NormalizationNeverFails ==
    \A i \in Runs :
        /\ ValidPolicy(policy[i].parsed)
        /\ ValidPolicy(policy[i].extracted)
        /\ NothingParses(StructuredList(raw))
              => \A k \in AclListFields : policy[i].parsed[k] = <<>>

\* a list with a text that is no JSON and a JSON array has been normalized
C13_Witness ==
    /\ Len(policy) > 0
    /\ Has(StructuredList(raw), NotJson) /\ Has(StructuredList(raw), NotAnObject)
    /\ policy[1].parsed = EmptyAcl

\* C14: two normalizations of the same attributes give the same four sets,
\* whatever the order in which each run lists them.
C14_NormalizationDeterministic ==
    Len(policy) = 2 =>
        \A k \in AclListFields :
            /\ Range(policy[1].parsed[k]) = Range(policy[2].parsed[k])
            /\ Range(policy[1].extracted[k]) = Range(policy[2].extracted[k])
            /\ Range(policy[1].document[k]) = Range(policy[2].document[k])

\* the two runs listed the same users in different orders
C14_Witness ==
    /\ Len(policy) = 2
    /\ Len(policy[1].parsed.allowed_users) = 2
    /\ policy[1].parsed.allowed_users # policy[2].parsed.allowed_users
    /\ policy[1].document.allowed_users # policy[2].document.allowed_users

\* the list field an entry belongs in by its access and its principal type
\* (under either name of that field), "none" for another access
ClaimedField(obj) ==
    LET kind == lower(Get(obj, "principal_type", Get(obj, "type", "user")))
        access == lower(Get(obj, "access", "allow"))
    IN  IF access = "allow"
        THEN IF kind = "group" THEN "allowed_groups" ELSE "allowed_users"
        ELSE IF access = "deny"
        THEN IF kind = "group" THEN "denied_groups" ELSE "denied_users"
        ELSE "none"

EntryObjects(acl_list) ==
    {json_loads(acl_list[i]).obj : i \in {j \in 1..Len(acl_list) : IsEntryObject(acl_list[j])}}

\* C18: every well-formed entry of a list contributes its principal to the
\* policy, whatever malformed entries (no JSON, or JSON that is no object)
\* stand before or after it.
C18_MalformedEntriesSkipped ==
    \A i \in Runs :
        \A obj \in EntryObjects(StructuredList(raw)) :
            \E k \in AclListFields : Has(policy[i].parsed[k], obj.principal)

\* C19: every entry object is filed by its access and its principal type in
\* that one list field, and permission_levels[principal] holds the
\* permissions and inheritance of an entry of that principal.
C19_EntriesGroupedByAccessAndType ==
    \A i \in Runs :
        \A obj \in EntryObjects(StructuredList(raw)) :
            /\ ClaimedField(obj) # "none"
                  => Has(policy[i].parsed[ClaimedField(obj)], obj.principal)
            /\ obj.principal \in DOMAIN policy[i].parsed.permission_levels
            /\ \E other \in EntryObjects(StructuredList(raw)) :
                  /\ other.principal = obj.principal
                  /\ policy[i].parsed.permission_levels[obj.principal].permissions
                        = Get(other, "permissions", <<>>)
                  /\ policy[i].parsed.permission_levels[obj.principal].inheritance
                        = Get(other, "inheritance", "inherited")

\* neither the structured list nor the _acl_ fields gave a principal
NoPrimaryData(i) ==
    \A k \in AclListFields :
        policy[i].parsed[k] = <<>> /\ PrimaryFields(raw)[k] = <<>>

AlternateValues(k) ==
    IF AlternateFieldName(k) \in DOMAIN raw
    THEN Range(AsList(raw[AlternateFieldName(k)])) \ {""} ELSE {}

\* C20: when neither the structured list nor the _acl_ fields give a
\* principal, each policy field holds the principals of its alternate field
\* (_allowed_principals, _allowed_groups, _denied_principals, _denied_groups),
\* given as one value or as a list; the policy is empty only when those
\* fields carry no principal.
C20_AlternateFieldsTried ==
    \A i \in Runs :
        NoPrimaryData(i) =>
            \A k \in AclListFields :
                /\ Range(policy[i].extracted[k]) = AlternateValues(k)
                /\ Range(policy[i].document[k]) = AlternateValues(k)

\* one alternate field was a single value, another a list
C20_Witness ==
    /\ Len(policy) > 0 /\ NoPrimaryData(1)
    /\ "_denied_principals" \in DOMAIN raw /\ IsStr(raw["_denied_principals"])
    /\ "_allowed_principals" \in DOMAIN raw /\ IsList(raw["_allowed_principals"])
    /\ Len(policy[1].document.allowed_users) = 2
    /\ policy[1].document.denied_users = <<"bob">>

(***************************************************************************)
(* Order of the merged results (specification SpecHybrid)                  *)
(***************************************************************************)
\* what the two backends handed to the merge, primary first
Arrivals ==
    (IF Searched("bedrock")
     THEN Tag(retrieve_documents(hcall.query,
                  build_access_control_filters(hcall.user_id, hcall.user_groups),
                  hcall.max_results, env.backend, now).value.results,
              "bedrock", "pdf_documents")
     ELSE <<>>)
    \o (IF Searched("sharepoint")
        THEN Tag(search_kendra_sharepoint(hcall.query, hcall.user_token,
                     hcall.max_results, hcall.user_id, hcall.user_groups,
                     env.kendra).results,
                 "sharepoint", "sharepoint_pages")
        ELSE <<>>)

\* the place of the p-th arrival in the merged order: after every arrival of
\* a higher score and every earlier arrival of the same score
Rank(all, p) ==
    1 + Cardinality({q \in 1..Len(all) :
                        \/ all[q].score > all[p].score
                        \/ all[q].score = all[p].score /\ q < p})

\* C15: the merged list holds the arrivals of both backends (primary first)
\* by non-increasing score, arrivals of equal score in their arrival order,
\* cut to the first max_results; total_results is its length.
C15_MergeOrder ==
    (HybridReturned /\ ~hret.raised) =>
        LET results == hret.value.results
            all == Arrivals
        IN  /\ Len(results) = IF Len(all) < hcall.max_results THEN Len(all)
                              ELSE hcall.max_results
            /\ hret.value.total_results = Len(results)
            /\ \A i, j \in 1..Len(results) : i < j => results[i].score >= results[j].score
            /\ \A p \in 1..Len(all) :
                  Rank(all, p) <= hcall.max_results => results[Rank(all, p)] = all[p]

\* the cut fell between two arrivals of equal score: the primary store's
\* document stayed, the keyword index's went
C15_Witness ==
    /\ HybridReturned /\ ~hret.raised
    /\ Len(Arrivals) = 4 /\ hcall.max_results = 3
    /\ Arrivals[2].score = Arrivals[4].score
    /\ hret.value.results[3] = Arrivals[2]
    /\ hret.value.results[2].source = "sharepoint"

(***************************************************************************)
(* Citations of a cached generate response (specification Spec)            *)
(***************************************************************************)
\* C17: a successful cached generate response has one citation per retrieved
\* document, in the order of the result list, each with the content, the
\* location and the sanitized metadata of its document and not the
\* generated text.
C17_CitationsFollowResults ==
    (Generate /\ event.use_caching /\ response.statusCode = 200) =>
        LET citations == response.body.citations
            results == [i \in 1..Len(Retrieved) |-> ProcessResult(Retrieved[i])]
        IN  /\ Len(citations) = Len(results)
            /\ \A i \in 1..Len(results) :
                  /\ Len(citations[i].retrievedReferences) = 1
                  /\ citations[i].retrievedReferences[1].content = results[i].content
                  /\ citations[i].retrievedReferences[1].location = results[i].location
                  /\ citations[i].retrievedReferences[1].metadata = results[i].metadata
                  /\ citations[i].retrievedReferences[1].content
                        # response.body.generated_response

\* three documents were cited, best score first
C17_Witness ==
    /\ Generate /\ event.use_caching /\ response.statusCode = 200
    /\ Len(response.body.citations) = 3
    /\ response.body.citations[1].retrievedReferences[1].content = KB1.content
    /\ response.body.citations[3].retrievedReferences[1].content = KB4.content

(***************************************************************************)
(* The PDF splitter of src/lambda_function.py (specification SpecPdf).  A  *)
(* PDF is its page count; a chunk is the list of the page indices          *)
(* (0-based, as pdf_reader.pages) written to it.                           *)
(***************************************************************************)
MaxPages == 45          \* an uploaded PDF has 1..MaxPages pages
SplitAbove == 20        \* if page_count > 20
pages_per_chunk == 20

Min(a, b) == IF a < b THEN a ELSE b

\* total_pages // pages_per_chunk
num_chunks_floor(total_pages) == total_pages \div pages_per_chunk

num_chunks(total_pages) == (total_pages + pages_per_chunk - 1) \div pages_per_chunk

\* range(start_page, end_page) of chunk chunk_idx
ChunkPages(chunk_idx, total_pages) ==
    LET start_page == chunk_idx * pages_per_chunk
        end_page == Min((chunk_idx + 1) * pages_per_chunk, total_pages)
    IN  [i \in 1..(end_page - start_page) |-> start_page + i - 1]

\* a PDF arrives under input/
UploadPdf ==
    /\ pdf = NoEvent
    /\ \E page_count \in 1..MaxPages :
          pdf' = [page_count |-> page_count, at |-> "input", split_pdfs |-> <<>>]
    /\ UNCHANGED <<prompt_cache, now, event, response, calls, env, hcall, hret, kcall, kret, pc, local, acl, sync, raw, policy>>

\* lambda_handler: count the pages, then split or move to processed/
CountPages ==
    /\ pdf # NoEvent /\ pdf.at = "input"
    /\ pdf' = [pdf EXCEPT !.at = IF pdf.page_count > SplitAbove THEN "splitting"
                                 ELSE "processed"]
    /\ UNCHANGED <<prompt_cache, now, event, response, calls, env, hcall, hret, kcall, kret, pc, local, acl, sync, raw, policy>>

\* split_pdf_into_chunks: one turn of the loop over chunk_idx
WriteChunk ==
    /\ pdf # NoEvent /\ pdf.at = "splitting"
    /\ Len(pdf.split_pdfs) < num_chunks(pdf.page_count)
    /\ pdf' = [pdf EXCEPT !.split_pdfs =
                  Append(@, ChunkPages(Len(pdf.split_pdfs), pdf.page_count))]
    /\ UNCHANGED <<prompt_cache, now, event, response, calls, env, hcall, hret, kcall, kret, pc, local, acl, sync, raw, policy>>

\* upload_split_pdfs: the chunks go to output/
UploadChunks ==
    /\ pdf # NoEvent /\ pdf.at = "splitting"
    /\ Len(pdf.split_pdfs) = num_chunks(pdf.page_count)
    /\ pdf' = [pdf EXCEPT !.at = "output"]
    /\ UNCHANGED <<prompt_cache, now, event, response, calls, env, hcall, hret, kcall, kret, pc, local, acl, sync, raw, policy>>

NextPdf == UploadPdf \/ CountPages \/ WriteChunk \/ UploadChunks

SpecPdf == Init /\ [][NextPdf]_vars

RECURSIVE Flatten(_)
Flatten(chunks) == IF chunks = <<>> THEN <<>> ELSE Head(chunks) \o Flatten(Tail(chunks))

\* C16: a PDF of at most 20 pages is not split; one of N > 20 pages is split
\* into ceil(N/20) chunks that are, put end to end, the pages 0..N-1 in
\* order, each chunk of 20 pages but the last, which has 1 to 20; 45 pages
\* give chunks of 20, 20 and 5.
C16_PdfChunking ==
    /\ (pdf # NoEvent /\ pdf.at = "processed")
          => pdf.page_count <= 20 /\ pdf.split_pdfs = <<>>
    /\ (pdf # NoEvent /\ pdf.at = "output") =>
          LET N == pdf.page_count
              chunks == pdf.split_pdfs
              n == Len(chunks)
          IN  /\ N > 20
              /\ 20 * n >= N /\ 20 * (n - 1) < N
              /\ Flatten(chunks) = [i \in 1..N |-> i - 1]
              /\ \A c \in 1..(n - 1) : Len(chunks[c]) = 20
              /\ Len(chunks[n]) \in 1..20
              /\ N = 45 => [c \in 1..n |-> Len(chunks[c])] = <<20, 20, 5>>

\* the 45 pages went out as three chunks
C16_Witness ==
    /\ pdf # NoEvent /\ pdf.at = "output" /\ pdf.page_count = 45
    /\ Len(pdf.split_pdfs) = 3 /\ Len(pdf.split_pdfs[3]) = 5

(***************************************************************************)
(* determine_classification_from_acl_v2, and the policies it is given      *)
(* (specification SpecClass)                                               *)
(***************************************************************************)
public_indicators ==
    {"Everyone", "All Users", "Company Users", "All Employees", "Authenticated Users"}

\* isinstance(details, dict), which details.get needs
IsDict(details) == "array" \notin DOMAIN details

\* 'full_control' in [p.lower() for p in details.get('permissions', [])]
HoldsFullControl(details) ==
    LET permissions == Get(details, "permissions", <<>>)
    IN  \E i \in 1..Len(permissions) : lower(permissions[i]) = "full_control"

determine_classification_from_acl_v2(acl_data) ==
    LET permission_levels == Get(acl_data, "permission_levels", <<>>)
        allowed_groups == Get(acl_data, "allowed_groups", <<>>)
        allowed_users == Get(acl_data, "allowed_users", <<>>)
        full_control_count ==
            Cardinality({q \in DOMAIN permission_levels :
                            HoldsFullControl(permission_levels[q])})
        has_public_access == \E group \in public_indicators : Has(allowed_groups, group)
    IN  IF \E q \in DOMAIN permission_levels : ~IsDict(permission_levels[q])
        THEN [raised |-> TRUE, error |-> "AttributeError"]
        ELSE [raised |-> FALSE,
              value |->
                 IF full_control_count <= 2 /\ Len(allowed_users) <= 3 THEN "restricted"
                 ELSE IF full_control_count <= 5 /\ ~has_public_access THEN "confidential"
                 ELSE IF has_public_access THEN "internal"
                 ELSE IF Len(allowed_groups) <= 3 THEN "confidential"
                 ELSE "internal"]

MaxHolders == 6         \* principals holding full control in a policy
MaxAllowedUsers == 4    \* allowed users of a policy
MaxAllowedGroups == 4   \* allowed groups of a policy

HolderNames == <<"owner1", "owner2", "owner3", "owner4", "owner5", "owner6", "owner7">>
UserNames == <<"alice", "bob", "carol", "dave", "erin">>
DepartmentGroups == <<"finance", "legal", "hr", "sales", "ops">>

\* a policy as parse_sharepoint_acl_v2 leaves it: `holders` principals with
\* full control and one reader in permission_levels, `users` allowed users,
\* `groups` allowed groups, the first of them a company-wide one if `public`
PolicyOf(holders, users, groups, public) ==
    LET full == [permissions |-> <<"read", "Full_Control">>, type |-> "user",
                 access |-> "allow", inheritance |-> "direct"]
        read == [permissions |-> <<"read">>, type |-> "user",
                 access |-> "allow", inheritance |-> "inherited"]
        named == {HolderNames[i] : i \in 1..holders}
    IN  [allowed_users |-> SubSeq(UserNames, 1, users),
         allowed_groups |-> [i \in 1..groups |->
                                IF public /\ i = 1 THEN "Everyone" ELSE DepartmentGroups[i]],
         denied_users |-> <<>>, denied_groups |-> <<>>,
         permission_levels |-> [q \in named \cup {"reader"} |->
                                   IF q = "reader" THEN read ELSE full],
         inheritance_info |-> <<>>]

Policies ==
    {PolicyOf(holders, users, groups, public) :
        holders \in 0..MaxHolders, users \in 0..MaxAllowedUsers,
        groups \in 0..MaxAllowedGroups, public \in BOOLEAN}
    \cup {EmptyAcl, [EmptyAcl EXCEPT !.permission_levels = json_loads(PermissionsJson).obj]}

\* a document's policy reaches the converter
PolicyArrives ==
    /\ acl = NoEvent \/ "classification" \in DOMAIN acl
    /\ \E acl_data \in Policies : acl' = [acl_data |-> acl_data]
    /\ UNCHANGED <<prompt_cache, now, event, response, calls, env, hcall, hret, kcall, kret, pc, local, sync, raw, policy, pdf>>

\* 'classification': determine_classification_from_acl_v2(acl_data)
Classify ==
    /\ acl # NoEvent /\ "classification" \notin DOMAIN acl
    /\ acl' = [acl_data |-> acl.acl_data,
               classification |-> determine_classification_from_acl_v2(acl.acl_data)]
    /\ UNCHANGED <<prompt_cache, now, event, response, calls, env, hcall, hret, kcall, kret, pc, local, sync, raw, policy, pdf>>

NextClass == PolicyArrives \/ Classify

SpecClass == Init /\ [][NextClass]_vars

\* the counts the stated rule speaks of
FullControlHolders(acl_data) ==
    {q \in DOMAIN acl_data.permission_levels :
        \E i \in 1..Len(acl_data.permission_levels[q].permissions) :
            acl_data.permission_levels[q].permissions[i] \in {"full_control", "Full_Control"}}

PublicGroupAllowed(acl_data) ==
    \E i \in 1..Len(acl_data.allowed_groups) : acl_data.allowed_groups[i] \in public_indicators

StatedClassification(acl_data) ==
    LET full == Cardinality(FullControlHolders(acl_data))
    IN  IF full >= 1 /\ full <= 2 /\ Len(acl_data.allowed_users) <= 3 THEN "restricted"
        ELSE IF full <= 5 /\ ~PublicGroupAllowed(acl_data) THEN "confidential"
        ELSE IF PublicGroupAllowed(acl_data) THEN "internal"
        ELSE IF Len(acl_data.allowed_groups) <= 3 THEN "confidential"
        ELSE "internal"

Classified == acl # NoEvent /\ "classification" \in DOMAIN acl

\* C21: every policy whose permission levels are well formed is classified
\* by the stated rule order: restricted only with one or two holders of full
\* control and at most 3 allowed users, else confidential with at most 5
\* holders and no company-wide group, else internal with a company-wide
\* group, else confidential with at most 3 allowed groups, else internal.
C21_ClassificationRuleOrder ==
    (Classified /\ \A q \in DOMAIN acl.acl_data.permission_levels :
                       IsDict(acl.acl_data.permission_levels[q]))
        => /\ ~acl.classification.raised
           /\ acl.classification.value = StatedClassification(acl.acl_data)

(***************************************************************************)
(* Deny entries through the normalizer (specification SpecAcl)             *)
(***************************************************************************)
DenyEntry(obj) == lower(Get(obj, "access", "allow")) = "deny"

AllEntriesAreObjects ==
    \A j \in 1..Len(StructuredList(raw)) : IsEntryObject(StructuredList(raw)[j])

\* C25: when every entry of the structured list is an entry object, each
\* principal of a deny entry is in denied_users or denied_groups of the
\* policy extract_document_with_acl gives the document, also when the list
\* holds no allow entry.
C25_DenyEntriesKept ==
    \A i \in Runs :
        AllEntriesAreObjects =>
            \A obj \in EntryObjects(StructuredList(raw)) :
                DenyEntry(obj) =>
                    \/ Has(policy[i].document.denied_users, obj.principal)
                    \/ Has(policy[i].document.denied_groups, obj.principal)

(***************************************************************************)
(* Eviction from the prompt cache (specification Spec)                     *)
(***************************************************************************)
Age(entry) == now - fromisoformat(entry.timestamp)

\* the age of an entry at the clock reading of the lookup made in the step
AgeAtLookup(entry) == env'.clock.lookup - fromisoformat(entry.timestamp)

\* the step is lambda_handler serving the pending request
HandlerStep == Pending /\ response' # NoResponse

\* the request served in the step called get_cached_prompt with key k
LooksUp(k) ==
    /\ HandlerStep /\ "malformed" \notin DOMAIN event
    /\ k = generate_cache_key(RAG_PROMPT, event.user_groups)
    /\ Has(calls', "Cache hit") \/ Has(calls', "Cache miss")

\* C23: a lookup serves the entry of its key while the entry's age is below
\* the TTL and leaves it in the map; a lookup that finds the age at or above
\* the TTL reports a miss and takes that entry out of the map in the same
\* step; no other step (a request with another key, a request that makes no
\* lookup, the passing of time) removes or changes an entry, expired or not.
C23_LazyEviction ==
    [][\A k \in DOMAIN prompt_cache :
          LET entry == prompt_cache[k]
              kept == k \in DOMAIN prompt_cache' /\ prompt_cache'[k] = entry
          IN  IF LooksUp(k)
              THEN IF AgeAtLookup(entry) < CACHE_TTL_MINUTES
                   THEN Has(calls', "Cache hit") /\ ~Has(calls', "Cache miss") /\ kept
                   ELSE /\ Has(calls', "Cache expired") /\ Has(calls', "Cache miss")
                        /\ ~Has(calls', "Cache hit")
                        /\ ~kept
                        /\ k \in DOMAIN prompt_cache'
                              => prompt_cache'[k].timestamp = isoformat(env'.clock.stored)
              ELSE kept]_vars

\* a lookup found its entry expired and removed it (the model call then
\* failed, so nothing was stored); an expired entry of another key, not
\* looked up, is still in the map
C23_Witness ==
    /\ Served /\ Has(calls, "Cache expired") /\ response.statusCode = 500
    /\ generate_cache_key(RAG_PROMPT, event.user_groups) \notin DOMAIN prompt_cache
    /\ \E k \in DOMAIN prompt_cache : Age(prompt_cache[k]) >= CACHE_TTL_MINUTES

(***************************************************************************)
(* The cache key under reordering of the groups (specification SpecKey)    *)
(***************************************************************************)
Permutation(g1, g2) ==
    Len(g1) = Len(g2) /\ \A x \in Range(g1) \cup Range(g2) : Count(g1, x) = Count(g2, x)

\* C24: two callers whose group lists are orderings of the same groups get
\* the same cache key for the same prompt template, so the second caller's
\* lookup returns the entry the first caller stored.
C24_PermutationsShareKey ==
    (kcall # NoEvent /\ Permutation(kcall.first, kcall.second)) =>
        /\ generate_cache_key(RAG_PROMPT, kcall.first)
              = generate_cache_key(RAG_PROMPT, kcall.second)
        /\ kret # NoEvent => kret # None /\ kret.user_groups = kcall.first

\* the second caller gave the first caller's two groups the other way round
C24_Witness ==
    /\ kcall # NoEvent /\ kret # NoEvent
    /\ Len(kcall.first) = 2 /\ kcall.first[1] # kcall.first[2]
    /\ kcall.second = <<kcall.first[2], kcall.first[1]>>
    /\ kret # None

(***************************************************************************)
(* Lookups racing with a store or with each other (specification SpecConc) *)
(***************************************************************************)
\* C26: whenever the entry of the key is taken out of the map, its age at
\* that step is at or above the TTL: a lookup that read an expired entry
\* does not delete the fresh entry another request stored in between.
C26_GetNeverEvictsLive ==
    [][(SharedKey \in DOMAIN prompt_cache /\ SharedKey \notin DOMAIN prompt_cache')
          => now - fromisoformat(prompt_cache[SharedKey].timestamp) >= CACHE_TTL_MINUTES]_vars

\* C27: when all the overlapping calls are lookups of the key, none of them
\* ends in an error: each completes, whatever the other has removed.
C27_ConcurrentExpiredReadsComplete ==
    (\A d \in Clients : local[d].op = "get") => \A c \in Clients : pc[c] # "raised"

(***************************************************************************)
(* Writes to the prompt cache (specification Spec)                         *)
(***************************************************************************)
\* every entry of the map after the step was there, the same, before it
NothingWritten ==
    \A k \in DOMAIN prompt_cache' :
        k \in DOMAIN prompt_cache /\ prompt_cache'[k] = prompt_cache[k]

\* C28: a request whose lookup hit leaves the whole map as it was, the
\* entry of its key and that entry's timestamp included, and stores
\* nothing; a request stores, or writes any entry, only after a miss.
C28_HitLeavesCacheUnchanged ==
    [][HandlerStep =>
          /\ Has(calls', "Cache hit")
                => prompt_cache' = prompt_cache /\ ~Has(calls', "Stored cache")
          /\ (Has(calls', "Stored cache") \/ ~NothingWritten)
                => Has(calls', "Cache miss") /\ ~Has(calls', "Cache hit")]_vars

\* a request hit the entry stored a minute ago, which still bears that time
C28_Witness ==
    /\ Served /\ response.statusCode = 200
    /\ Has(calls, "Cache hit") /\ ~Has(calls, "Stored cache")
    /\ LET key == generate_cache_key(RAG_PROMPT, event.user_groups)
       IN  key \in DOMAIN prompt_cache
           /\ fromisoformat(prompt_cache[key].timestamp) = now - 1

\* C29: a request whose model call fails, or that validation rejects, or for
\* which no document is retrieved, stores nothing: no entry of the map is new
\* or changed after it (the two short circuits leave the map as it was).
C29_FailedRequestStoresNothing ==
    [][HandlerStep =>
          /\ response'.statusCode # 200
                => ~Has(calls', "Stored cache") /\ NothingWritten
          /\ response'.statusCode = 400 => prompt_cache' = prompt_cache /\ calls' = <<>>
          /\ (/\ response'.statusCode = 200
              /\ response'.body.type = "retrieve_and_generate_cached"
              /\ response'.body.citations = <<>>)
                => /\ response'.body.generated_response = NO_RESULTS_MESSAGE
                   /\ prompt_cache' = prompt_cache]_vars

\* the model call of a request failed after its lookup missed; its key has
\* no entry
C29_Witness ==
    /\ Served /\ response.statusCode = 500
    /\ Has(calls, "Cache miss") /\ ~Has(calls, "Cache expired")
    /\ Has(calls, "Error generating with Claude caching")
    /\ generate_cache_key(RAG_PROMPT, event.user_groups) \notin DOMAIN prompt_cache

(***************************************************************************)
(* The sync run of src/sharepoint_sync.py (specification SpecSync): the    *)
(* items of the keyword index are extracted, converted to knowledge-base   *)
(* documents, uploaded to the bucket, and the indexing job is started.     *)
(* Of the metadata of a converted document the model keeps the source, the *)
(* fields of the text header and the access-control fields.                *)
(***************************************************************************)
SYNC_PREFIX == "sharepoint-content"

\* the items of the index are pages of the site "fin"
SitePrefix == "https://sp/sites/fin/"

SyncItem(id, excerpt, title, attributes) ==
    [Id |-> id, DocumentExcerpt |-> [Text |-> excerpt], DocumentTitle |-> [Text |-> title],
     DocumentURI |-> SitePrefix \o id, DocumentAttributes |-> attributes]

ItemRoadmap ==
    SyncItem("sp-1", "roadmap text", "Roadmap",
             [sharepoint_acl_v2 |-> SLV(<<AllowAlice, AllowFinance>>),
              sharepoint_author |-> SV("b@x.com")])
\* the ACL list of this item is no JSON
ItemNda ==
    SyncItem("sp-2", "nda text", "NDA",
             [sharepoint_acl_v2 |-> SLV(<<NotJson>>), sharepoint_author |-> SV("a@x.com")])
ItemMemo ==
    SyncItem("sp-3", "", "Memo", [sharepoint_acl_v2 |-> SLV(<<NotJson, NotJson>>)])
\* the permission levels of this item are lists, not objects
ItemPlan ==
    SyncItem("sp-4", "plan text", "Plan",
             [_acl_allowed_users |-> SV("alice"), _acl_permissions |-> SV(PermissionsJson)])
\* an item with neither excerpt nor title
ItemBlank == SyncItem("sp-5", "", "", NoAttributes)
ItemPolicy ==
    SyncItem("sp-6", "policy text", "Policy",
             [_acl_allowed_groups |-> SLV(<<"Everyone", "legal">>),
              sharepoint_author |-> SV("a@x.com")])

SyncItems == {ItemRoadmap, ItemNda, ItemMemo, ItemPlan, ItemBlank, ItemPolicy}

\* the excerpt of the item, or else its title
ItemContent(kendra_item) ==
    IF kendra_item.DocumentExcerpt.Text # "" THEN kendra_item.DocumentExcerpt.Text
    ELSE kendra_item.DocumentTitle.Text

\* the value extract_document_with_acl returns for the item
DocumentWith(kendra_item, content, acl_data) ==
    IF content = "" \/ acl_data = None THEN None
    ELSE [id |-> kendra_item.Id, content |-> content,
          title |-> kendra_item.DocumentTitle.Text, uri |-> kendra_item.DocumentURI,
          metadata |-> kendra_item.DocumentAttributes, acl_data |-> acl_data]

\* extract_document_with_acl: the document of an item, None without content
extract_document(kendra_item, order) ==
    DocumentWith(kendra_item, ItemContent(kendra_item),
                 extract_document_with_acl(kendra_item.DocumentAttributes, order))

\* if doc_details: documents.append(doc_details)
WithDocument(doc_details, documents) ==
    IF doc_details = None THEN documents ELSE <<doc_details>> \o documents

\* fetch_sharepoint_documents_with_acl by document ids: the documents of the
\* items, those without a document left out
RECURSIVE fetch_documents_by_ids(_, _)
fetch_documents_by_ids(items, orders) ==
    IF items = <<>> THEN <<>>
    ELSE WithDocument(extract_document(Head(items), Head(orders)),
                      fetch_documents_by_ids(Tail(items), Tail(orders)))

\* has_permission_level(acl_data, 'full_control')
has_permission_level_full_control(acl_data) ==
    LET permission_levels == Get(acl_data, "permission_levels", <<>>)
    IN  \E q \in DOMAIN permission_levels : HoldsFullControl(permission_levels[q])

\* f"{clean_title}_{doc_id[:8]}.txt" for the titles and ids of the items
generate_filename_from_sharepoint_doc(doc) == doc.title \o "_" \o doc.id \o ".txt"

\* the department whose keyword occurs in group.lower(), "" when none does
DepartmentOfGroup(group) ==
    CASE group = "finance" -> "finance"
      [] group = "legal"   -> "legal"
      [] OTHER             -> ""

\* extract_department_from_groups: the department of the first group that
\* holds a keyword
RECURSIVE extract_department_from_groups(_)
extract_department_from_groups(groups) ==
    IF groups = <<>> THEN "general"
    ELSE IF DepartmentOfGroup(Head(groups)) # "" THEN DepartmentOfGroup(Head(groups))
    ELSE extract_department_from_groups(Tail(groups))

\* extract_site_from_uri: uri.split('/sites/')[1].split('/')[0]
extract_site_from_uri(uri) ==
    IF \E id \in {"sp-1", "sp-2", "sp-3", "sp-4", "sp-5", "sp-6"} : uri = SitePrefix \o id
    THEN "fin"
    ELSE "unknown"

convert_sharepoint_to_bedrock_format_v2(sharepoint_doc) ==
    LET acl_data == sharepoint_doc.acl_data
        original_metadata == sharepoint_doc.metadata
        permission_levels == Get(acl_data, "permission_levels", <<>>)
        classification == determine_classification_from_acl_v2(acl_data)
    IN  IF \E q \in DOMAIN permission_levels : ~IsDict(permission_levels[q])
        THEN [raised |-> TRUE, error |-> "AttributeError"]     \* details.get
        ELSE [raised |-> FALSE,
              value |->
                 [content |-> sharepoint_doc.content,
                  metadata |->
                     [source |-> "sharepoint",
                      source_type |-> "sharepoint_page",
                      sharepoint_uri |-> sharepoint_doc.uri,
                      title |-> Get(original_metadata, "sharepoint_title",
                                    SV(sharepoint_doc.title)).StringValue,
                      author |-> Get(original_metadata, "sharepoint_author",
                                     SV("")).StringValue,
                      created_date |-> Get(original_metadata, "sharepoint_created",
                                           SV("")).StringValue,
                      modified_date |-> Get(original_metadata, "sharepoint_modified",
                                            SV("")).StringValue,
                      created_by |-> Get(original_metadata, "sharepoint_author",
                                         SV("system")).StringValue,
                      access_users |-> join("|", Get(acl_data, "allowed_users", <<>>)),
                      access_groups |-> join("|", Get(acl_data, "allowed_groups", <<>>)),
                      denied_users |-> join("|", Get(acl_data, "denied_users", <<>>)),
                      denied_groups |-> join("|", Get(acl_data, "denied_groups", <<>>)),
                      has_full_control_users |-> has_permission_level_full_control(acl_data),
                      classification |-> classification.value,
                      department |-> extract_department_from_groups(
                                        Get(acl_data, "allowed_groups", <<>>)),
                      sharepoint_site |-> extract_site_from_uri(sharepoint_doc.uri)],
                  filename |-> generate_filename_from_sharepoint_doc(sharepoint_doc)]]

\* processed_documents.append(processed_doc), or the exception of a conversion
WithProcessed(processed_doc, rest) ==
    IF processed_doc.raised THEN processed_doc
    ELSE IF rest.raised THEN rest
    ELSE [raised |-> FALSE, value |-> <<processed_doc.value>> \o rest.value]

\* the loop of lambda_handler over sharepoint_documents
RECURSIVE ConvertAll(_)
ConvertAll(documents) ==
    IF documents = <<>> THEN [raised |-> FALSE, value |-> <<>>]
    ELSE WithProcessed(convert_sharepoint_to_bedrock_format_v2(Head(documents)),
                       ConvertAll(Tail(documents)))

\* {key: str(value) for key, value in doc['metadata'].items()}
S3Metadata(metadata) ==
    [key \in DOMAIN metadata |->
        IF key = "has_full_control_users"
        THEN IF metadata[key] THEN "True" ELSE "False"
        ELSE metadata[key]]

\* the header lines joined by "\n", an empty line, the content
create_document_with_metadata_header(doc) ==
    LET metadata == doc.metadata
        header_parts ==
            <<"Title: " \o Get(metadata, "title", ""),
              "Source: SharePoint (" \o Get(metadata, "sharepoint_site", "") \o ")",
              "Author: " \o Get(metadata, "author", ""),
              "Created: " \o Get(metadata, "created_date", ""),
              "Modified: " \o Get(metadata, "modified_date", ""),
              "Department: " \o Get(metadata, "department", ""),
              "Classification: " \o Get(metadata, "classification", ""),
              "---">>
        header == join("\n", header_parts)
    IN  header \o "\n\n" \o doc.content

\* the arguments of one put_object
S3Object(doc) ==
    [Key |-> SYNC_PREFIX \o "/" \o doc.filename,
     Body |-> create_document_with_metadata_header(doc),
     Metadata |-> S3Metadata(doc.metadata)]

\* a failed put_object logged and passed over
upload_documents_to_s3_skip_failures(documents, fails_at) ==
    LET attempts == Len(documents)
        stored == {i \in 1..attempts : i # fails_at}
    IN  [raised |-> FALSE,
         calls |-> [i \in 1..attempts |-> "put_object"],
         staged |-> [i \in 1..Cardinality(stored) |->
                        S3Object(documents[IF fails_at \in 1..i THEN i + 1 ELSE i])],
         value |-> [i \in 1..Cardinality(stored) |->
                       S3Object(documents[IF fails_at \in 1..i THEN i + 1 ELSE i]).Key]]

\* upload_documents_to_s3, where put_object number fails_at raises (none
\* for 0): the puts made, the objects they left in the bucket, and the keys
\* returned or the exception
upload_documents_to_s3(documents, fails_at) ==
    LET failed == fails_at \in 1..Len(documents)
        attempts == IF failed THEN fails_at ELSE Len(documents)
        stored == IF failed THEN fails_at - 1 ELSE Len(documents)
    IN  [raised |-> failed,
         calls |-> [i \in 1..attempts |-> "put_object"],
         staged |-> [i \in 1..stored |-> S3Object(documents[i])],
         value |-> [i \in 1..stored |-> S3Object(documents[i]).Key]]

IngestionOutcomes == {"started", "error", "no_data_source"}

\* trigger_bedrock_ingestion: get_bedrock_data_source_id, start_ingestion_job
trigger_bedrock_ingestion(ingestion) ==
    IF ingestion = "no_data_source"
    THEN [raised |-> TRUE, calls |-> <<"list_data_sources">>]
    ELSE IF ingestion = "error"
    THEN [raised |-> TRUE, calls |-> <<"list_data_sources", "start_ingestion_job">>]
    ELSE [raised |-> FALSE, calls |-> <<"list_data_sources", "start_ingestion_job">>,
          value |-> [ingestionJobId |-> "job-1"]]

sync_success_response(data, t) ==
    [statusCode |-> 200, body |-> [status |-> "success", data |-> data,
                                   timestamp |-> isoformat(t)]]

sync_error_response(error_message, t) ==
    [statusCode |-> 500, body |-> [status |-> "error", error |-> error_message,
                                   timestamp |-> isoformat(t)]]

\* lambda_handler from "Trigger Bedrock Knowledge Base ingestion" on
SyncAfterUpload(processed_documents, uploaded, job, t) ==
    IF uploaded.raised
    THEN [response |-> sync_error_response("put_object", t),
          calls |-> uploaded.calls, staged |-> uploaded.staged]
    ELSE IF uploaded.value = <<>>
    THEN [response |-> sync_success_response(
                          [documents_processed |-> Len(processed_documents),
                           files_uploaded |-> 0, ingestion_job_id |-> "None"], t),
          calls |-> uploaded.calls, staged |-> uploaded.staged]
    ELSE IF job.raised
    THEN [response |-> sync_error_response("ingestion", t),
          calls |-> uploaded.calls \o job.calls, staged |-> uploaded.staged]
    ELSE [response |-> sync_success_response(
                          [documents_processed |-> Len(processed_documents),
                           files_uploaded |-> Len(uploaded.value),
                           ingestion_job_id |-> job.value.ingestionJobId], t),
          calls |-> uploaded.calls \o job.calls, staged |-> uploaded.staged]

\* lambda_handler from "Upload documents to S3" on
SyncAfterConvert(processed, fails_at, ingestion, t) ==
    IF processed.raised
    THEN [response |-> sync_error_response(processed.error, t),
          calls |-> <<>>, staged |-> <<>>]
    ELSE SyncAfterUpload(processed.value,
                         upload_documents_to_s3(processed.value, fails_at),
                         trigger_bedrock_ingestion(ingestion), t)

\* lambda_handler from `if not sharepoint_documents` on
SyncAfterFetch(sharepoint_documents, fails_at, ingestion, t) ==
    IF sharepoint_documents = <<>>
    THEN [response |-> sync_success_response([message |-> "No documents to sync"], t),
          calls |-> <<>>, staged |-> <<>>]
    ELSE SyncAfterConvert(ConvertAll(sharepoint_documents), fails_at, ingestion, t)

\* lambda_handler of the sync: its response, the calls it made to the bucket
\* and to the knowledge base, and the objects it left in the bucket
sync_lambda_handler(items, orders, fails_at, ingestion, t) ==
    SyncAfterFetch(fetch_documents_by_ids(items, orders), fails_at, ingestion, t)

MaxItems == 2       \* the index holds at most this many items in a run

ItemLists == SeqsUpTo(SyncItems, MaxItems)

\* the orders in which the sets of each item's principals may be iterated
OrdersOf(items) ==
    {orders \in [1..Len(items) ->
                    UNION {HashOrders(Principals(item.DocumentAttributes)) :
                              item \in SyncItems}] :
        \A i \in 1..Len(items) :
            orders[i] \in HashOrders(Principals(items[i].DocumentAttributes))}

\* the schedule starts a run: what the index holds, and what the bucket and
\* the knowledge base will do
StartSync ==
    /\ sync = NoEvent
    /\ \E items \in ItemLists, fails_at \in 0..MaxItems, ingestion \in IngestionOutcomes :
          \E orders \in OrdersOf(items) :
             sync' = [items |-> items, orders |-> orders, fails_at |-> fails_at,
                      ingestion |-> ingestion]
    /\ UNCHANGED <<prompt_cache, now, event, response, calls, env, hcall, hret, kcall, kret, pc, local, acl, raw, policy, pdf>>

\* lambda_handler runs
RunSync ==
    /\ sync # NoEvent /\ "response" \notin DOMAIN sync
    /\ LET out == sync_lambda_handler(sync.items, sync.orders, sync.fails_at,
                                      sync.ingestion, now)
       IN  sync' = [items |-> sync.items, orders |-> sync.orders,
                    fails_at |-> sync.fails_at, ingestion |-> sync.ingestion,
                    response |-> out.response, calls |-> out.calls,
                    staged |-> out.staged]
    /\ UNCHANGED <<prompt_cache, now, event, response, calls, env, hcall, hret, kcall, kret, pc, local, acl, raw, policy, pdf>>

NextSync == StartSync \/ RunSync

SpecSync == Init /\ [][NextSync]_vars

(***************************************************************************)
(* Properties of the sync run (specification SpecSync)                     *)
(***************************************************************************)
SyncDone == sync # NoEvent /\ "response" \in DOMAIN sync

\* the documents the run fetched
Fetched == fetch_documents_by_ids(sync.items, sync.orders)

\* the ACL attributes of the item are a structured list of which no entry
\* parses, and nothing else
UnparseableAcl(item) ==
    /\ DOMAIN item.DocumentAttributes \subseteq {"sharepoint_acl_v2", "sharepoint_author"}
    /\ "sharepoint_acl_v2" \in DOMAIN item.DocumentAttributes
    /\ StructuredList(item.DocumentAttributes) # <<>>
    /\ NothingParses(StructuredList(item.DocumentAttributes))

\* the callers that pass validation
Callers ==
    {c \in [user_id : UserIds, user_groups : UserGroupLists] :
        Validate("Q1 revenue", c.user_id, c.user_groups) = ""}

\* C22: an item with content whose ACL attributes do not parse gets the
\* empty policy; when the run uploads all its documents, the item's document
\* is among the objects staged; and the metadata staged for it meets a
\* condition of a caller's access predicate only if that condition is
\* classification = public, never one on access_users, access_groups or
\* created_by.
C22_UnparseableAclOnlyPublic ==
    SyncDone =>
        \A i \in 1..Len(sync.items) :
            (UnparseableAcl(sync.items[i]) /\ ItemContent(sync.items[i]) # "") =>
                LET doc == extract_document(sync.items[i], sync.orders[i])
                    key == SYNC_PREFIX \o "/" \o generate_filename_from_sharepoint_doc(doc)
                    objects == {o \in Range(sync.staged) : o.Key = key}
                IN  /\ \A k \in AclListFields : doc.acl_data[k] = <<>>
                    /\ (Len(sync.staged) = Len(Fetched) /\ sync.calls # <<>>)
                          => objects # {}
                    /\ \A o \in objects, c \in Callers :
                          LET filter == build_access_control_filters(c.user_id, c.user_groups)
                          IN  \A j \in 1..Len(filter.orAll) :
                                 ConditionHolds(filter.orAll[j], o.Metadata)
                                    => filter.orAll[j] = Equals("classification", "public")

\* C30: a run starts the indexing job at most once, and only as its last
\* call, after one successful put for every document it converted; a run
\* that fetched no document makes no call and answers with success; a run
\* in which a put failed starts no job, leaves the objects put before the
\* failure in the bucket and answers with an error.
C30_IngestionAfterAllUploads ==
    SyncDone =>
        LET jobs == Count(sync.calls, "start_ingestion_job")
            puts == Count(sync.calls, "put_object")
            upload_failed == puts > Len(sync.staged)
        IN  /\ jobs <= 1
            /\ jobs = 1 =>
                  /\ Fetched # <<>>
                  /\ puts = Len(Fetched) /\ Len(sync.staged) = Len(Fetched)
                  /\ \A i \in 1..Len(Fetched) : sync.calls[i] = "put_object"
                  /\ sync.calls[Len(sync.calls)] = "start_ingestion_job"
            /\ Fetched = <<>> =>
                  sync.calls = <<>> /\ sync.staged = <<>> /\ sync.response.statusCode = 200
            /\ upload_failed =>
                  /\ jobs = 0
                  /\ sync.response.statusCode = 500
                  /\ Len(sync.staged) = sync.fails_at - 1
            /\ (sync.response.statusCode = 200 /\ Fetched # <<>>) => jobs = 1

\* the second of two uploads failed: one object staged, no job, an error
C30_Witness ==
    /\ SyncDone /\ Len(Fetched) = 2 /\ sync.fails_at = 2
    /\ Count(sync.calls, "put_object") = 2 /\ Len(sync.staged) = 1
    /\ Count(sync.calls, "start_ingestion_job") = 0
    /\ sync.response.statusCode = 500

====
